---- MODULE Spec2Model ----
(***************************************************************************)
(* Seller quality automation: the weekly BigQuery report (streaks, labels, *)
(* email actions, final selection), the Apps Script run that notifies the  *)
(* sellers of the "Seller Quality" sheet, and the tracking-pixel handler.  *)
(*                                                                         *)
(* Rates are FLOAT64 values rounded to 6 decimals in the query; the model  *)
(* keeps them as exact integers in millionths (0.03 = 30000).              *)
(* SQL NULL of a numeric column is the value NULL below.                   *)
(***************************************************************************)
EXTENDS Integers, Sequences, FiniteSets, TLC

\* ---------------------------------------------------------------- bounds
\* last calendar week (Monday index) the model reaches
MaxWeek == 6
\* last calendar week reached when the weekly figures range over FlagObs
MaxFlagWeek == 2
\* data rows of a sheet filled by hand
MaxRows == 2
\* the time at which the script stops being called
MaxClock == 4
\* runs of main() on one content of the sheet
MaxRuns == 1
\* largest number of emails the mail service accepts in a run
MaxQuota == 2
MaxDialogs == 2
MaxRequests == 2

\* ------------------------------------------------------------- constants
NULL == -1
\* DECLARE start_date: Monday index of the tracking start
start_date == 1
\* 0.03, 0.0075, 0.04, 0.01 in millionths
DEFECTIVE_THRESHOLD == 30000
APPEARANCE_THRESHOLD == 7500
DEFECTIVE_CRITICAL == 40000
APPEARANCE_CRITICAL == 10000
\* COUNT >= 2 in every threshold test
MIN_ISSUE_COUNT == 2
\* streaks above this are filtered out of the report
MAX_REPORTED_STREAK == 5
\* ROUND(x, 6): one unit of the rounded rate
RATE_SCALE == 1000000

FIRST_WARNING == "Send First Warning"
LAST_WARNING == "Send Last Warning"
SUSPENSION == "Send Suspension Notice"
NO_ACTION == "No Action"

\* The seller of the model and the contact table's address list for it.
SELLER == "1001"

\* ------------------------------------------------------------- SQL helpers
\* ROUND(SUM(issues) / NULLIF(SUM(delivered), 0), 6), half away from zero
Rate6(issues, delivered) ==
  IF delivered = 0 THEN NULL
  ELSE (2 * issues * RATE_SCALE + delivered) \div (2 * delivered)

\* COALESCE(x, d)
COALESCE(x, d) == IF x = NULL THEN d ELSE x

\* the rows of a relation built row by row, as a sequence
Relation(f) == f \o << >>

\* x > y in a WHEN: a NULL operand makes the test not true
GT(x, y) == x # NULL /\ y # NULL /\ x > y

\* ------------------------------------------------------ weekly evaluation
\* HAD_DEFECTIVE_ISSUE failing from the threshold itself upwards
HadDefectiveIssue_FromThreshold(r) ==
  IF r.NB_DEFECTIVE_ISSUE >= MIN_ISSUE_COUNT
     /\ ~GT(DEFECTIVE_THRESHOLD, Rate6(r.NB_DEFECTIVE_ISSUE, r.NB_ORDERLINE_DELIVERED_30D))
     /\ r.NB_ORDERLINE_DELIVERED_30D # 0
  THEN 1 ELSE 0

\* WeeklyData: one row per Monday of the history table since start_date
HadDefectiveIssue(r) ==
  IF r.NB_DEFECTIVE_ISSUE >= MIN_ISSUE_COUNT
     /\ GT(Rate6(r.NB_DEFECTIVE_ISSUE, r.NB_ORDERLINE_DELIVERED_30D), DEFECTIVE_THRESHOLD)
  THEN 1 ELSE 0

HadAppearanceIssue(r) ==
  IF r.NB_APPEARANCE_ISSUE >= MIN_ISSUE_COUNT
     /\ GT(Rate6(r.NB_APPEARANCE_ISSUE, r.NB_ORDERLINE_DELIVERED_30D), APPEARANCE_THRESHOLD)
  THEN 1 ELSE 0

WeeklyData(h) ==
  LET Flagged(kept) ==
        Relation([i \in 1..Len(kept) |->
          [DATE_KPI |-> kept[i].DATE_KPI,
           HAD_APPEARANCE_ISSUE |-> HadAppearanceIssue(kept[i]),
           HAD_DEFECTIVE_ISSUE |-> HadDefectiveIssue(kept[i])]])
  IN Flagged(SelectSeq(h, LAMBDA r : r.DATE_KPI >= start_date))

\* NumberedWeeks: the seller's weeks numbered in date order
NumberedWeeks(wd) ==
  Relation([i \in 1..Len(wd) |->
     [DATE_KPI |-> wd[i].DATE_KPI,
      HAD_APPEARANCE_ISSUE |-> wd[i].HAD_APPEARANCE_ISSUE,
      HAD_DEFECTIVE_ISSUE |-> wd[i].HAD_DEFECTIVE_ISSUE,
      WEEK_NUM_RELATIVE |-> Cardinality({j \in 1..Len(wd) : wd[j].DATE_KPI <= wd[i].DATE_KPI})]])

\* AppearanceRuns: running count of no-issue weeks up to the current row
AppearanceRuns(nw) ==
  Relation([i \in 1..Len(nw) |->
     [DATE_KPI |-> nw[i].DATE_KPI,
      HAD_APPEARANCE_ISSUE |-> nw[i].HAD_APPEARANCE_ISSUE,
      APPEARANCE_GROUP |->
        Cardinality({j \in 1..Len(nw) : /\ nw[j].DATE_KPI <= nw[i].DATE_KPI
                                        /\ nw[j].HAD_APPEARANCE_ISSUE = 0})]])

\* DefectiveRuns numbering the runs by date minus rank, so that a missing
\* week starts a new group as a no-issue week does
DefectiveRuns_Islands(nw) ==
  Relation([i \in 1..Len(nw) |->
     [DATE_KPI |-> nw[i].DATE_KPI,
      HAD_DEFECTIVE_ISSUE |-> nw[i].HAD_DEFECTIVE_ISSUE,
      DEFECTIVE_GROUP |->
        nw[i].DATE_KPI -
        Cardinality({j \in 1..Len(nw) : /\ nw[j].DATE_KPI <= nw[i].DATE_KPI
                                        /\ nw[j].HAD_DEFECTIVE_ISSUE = 1})]])

\* DefectiveRuns: running count of no-issue weeks up to the current row
DefectiveRuns(nw) ==
  Relation([i \in 1..Len(nw) |->
     [DATE_KPI |-> nw[i].DATE_KPI,
      HAD_DEFECTIVE_ISSUE |-> nw[i].HAD_DEFECTIVE_ISSUE,
      DEFECTIVE_GROUP |->
        Cardinality({j \in 1..Len(nw) : /\ nw[j].DATE_KPI <= nw[i].DATE_KPI
                                        /\ nw[j].HAD_DEFECTIVE_ISSUE = 0})]])

\* AppearanceStreaks: issue weeks only, numbered inside their group
AppearanceStreaks(ar) ==
  LET Ranked(f) ==
        Relation([i \in 1..Len(f) |->
          [DATE_KPI |-> f[i].DATE_KPI,
           STREAK_LENGTH |->
             Cardinality({j \in 1..Len(f) : /\ f[j].APPEARANCE_GROUP = f[i].APPEARANCE_GROUP
                                            /\ f[j].DATE_KPI <= f[i].DATE_KPI}),
           RECENCY_RANK |->
             Cardinality({j \in 1..Len(f) : f[j].DATE_KPI >= f[i].DATE_KPI})]])
  IN Ranked(SelectSeq(ar, LAMBDA r : r.HAD_APPEARANCE_ISSUE = 1))

\* DefectiveStreaks without PARTITION BY DEFECTIVE_GROUP
DefectiveStreaks_NoPartition(dr) ==
  LET Ranked(f) ==
        Relation([i \in 1..Len(f) |->
          [DATE_KPI |-> f[i].DATE_KPI,
           STREAK_LENGTH |->
             Cardinality({j \in 1..Len(f) : f[j].DATE_KPI <= f[i].DATE_KPI}),
           RECENCY_RANK |->
             Cardinality({j \in 1..Len(f) : f[j].DATE_KPI >= f[i].DATE_KPI})]])
  IN Ranked(SelectSeq(dr, LAMBDA r : r.HAD_DEFECTIVE_ISSUE = 1))

\* DefectiveStreaks: issue weeks only, numbered inside their group
DefectiveStreaks(dr) ==
  LET Ranked(f) ==
        Relation([i \in 1..Len(f) |->
          [DATE_KPI |-> f[i].DATE_KPI,
           STREAK_LENGTH |->
             Cardinality({j \in 1..Len(f) : /\ f[j].DEFECTIVE_GROUP = f[i].DEFECTIVE_GROUP
                                            /\ f[j].DATE_KPI <= f[i].DATE_KPI}),
           RECENCY_RANK |->
             Cardinality({j \in 1..Len(f) : f[j].DATE_KPI >= f[i].DATE_KPI})]])
  IN Ranked(SelectSeq(dr, LAMBDA r : r.HAD_DEFECTIVE_ISSUE = 1))

\* LatestAppearanceStreak: the most recent issue week (no row when none)
LatestAppearanceStreak(as) ==
  LET Row(f) ==
        IF Len(f) = 0
        THEN [DATE_KPI |-> NULL, LATEST_APPEARANCE_STREAK |-> NULL]
        ELSE [DATE_KPI |-> f[1].DATE_KPI, LATEST_APPEARANCE_STREAK |-> f[1].STREAK_LENGTH]
  IN Row(SelectSeq(as, LAMBDA r : r.RECENCY_RANK = 1))

\* LatestDefectiveStreak: the most recent issue week (no row when none)
LatestDefectiveStreak(ds) ==
  LET Row(f) ==
        IF Len(f) = 0
        THEN [DATE_KPI |-> NULL, LATEST_DEFECTIVE_STREAK |-> NULL]
        ELSE [DATE_KPI |-> f[1].DATE_KPI, LATEST_DEFECTIVE_STREAK |-> f[1].STREAK_LENGTH]
  IN Row(SelectSeq(ds, LAMBDA r : r.RECENCY_RANK = 1))

\* ------------------------------------------------- current (30D) figures
\* LatestSellerInfo: the seller's history rows dated data_date
LatestSellerInfo(h, data_date) ==
  SelectSeq(h, LAMBDA r : r.DATE_KPI = data_date)

\* Defective30D: sums over the rows joined on DATE_KPI = ls.DATE_KPI
Defective30D(ls) ==
  [NB_DEFECTIVE_30D |-> ls[1].NB_DEFECTIVE_ISSUE,
   NB_ORDERLINE_DELIVERED_30D |-> ls[1].NB_ORDERLINE_DELIVERED_30D,
   DEFECTIVE_RATE_30D |-> Rate6(ls[1].NB_DEFECTIVE_ISSUE, ls[1].NB_ORDERLINE_DELIVERED_30D)]

\* Appearance30D: sums over the rows joined on DATE_KPI = ls.DATE_KPI
Appearance30D(ls) ==
  [NB_APPEARANCE_ISSUE_30D |-> ls[1].NB_APPEARANCE_ISSUE,
   NB_ORDERLINE_DELIVERED_30D |-> ls[1].NB_ORDERLINE_DELIVERED_30D,
   APPEARANCE_ISSUE_RATE_30D |-> Rate6(ls[1].NB_APPEARANCE_ISSUE, ls[1].NB_ORDERLINE_DELIVERED_30D)]

\* CurrentStatus: threshold flags of the latest figures
CurrentStatus(d30, a30) ==
  [CURRENT_DEFECTIVE_STATUS |->
     IF COALESCE(d30.NB_DEFECTIVE_30D, 0) >= MIN_ISSUE_COUNT
        /\ COALESCE(d30.DEFECTIVE_RATE_30D, 0) > DEFECTIVE_THRESHOLD THEN 1 ELSE 0,
   CURRENT_APPEARANCE_STATUS |->
     IF COALESCE(a30.NB_APPEARANCE_ISSUE_30D, 0) >= MIN_ISSUE_COUNT
        /\ COALESCE(a30.APPEARANCE_ISSUE_RATE_30D, 0) > APPEARANCE_THRESHOLD THEN 1 ELSE 0]

\* EffectiveStreaks: the latest issue run, counted only while failing now
EffectiveStreaks(cs, las, lds) ==
  [CURRENT_DEFECTIVE_STATUS |-> cs.CURRENT_DEFECTIVE_STATUS,
   CURRENT_APPEARANCE_STATUS |-> cs.CURRENT_APPEARANCE_STATUS,
   HISTORICAL_DEFECTIVE_STREAK |-> COALESCE(lds.LATEST_DEFECTIVE_STREAK, 0),
   HISTORICAL_APPEARANCE_STREAK |-> COALESCE(las.LATEST_APPEARANCE_STREAK, 0),
   EFFECTIVE_DEFECTIVE_STREAK |->
     IF cs.CURRENT_DEFECTIVE_STATUS = 1 /\ lds.DATE_KPI = NULL THEN 1
     ELSE IF cs.CURRENT_DEFECTIVE_STATUS = 1 THEN lds.LATEST_DEFECTIVE_STREAK
     ELSE 0,
   EFFECTIVE_APPEARANCE_STREAK |->
     IF cs.CURRENT_APPEARANCE_STATUS = 1 /\ las.DATE_KPI = NULL THEN 1
     ELSE IF cs.CURRENT_APPEARANCE_STATUS = 1 THEN las.LATEST_APPEARANCE_STREAK
     ELSE 0]

\* ----------------------------------------------------------- email actions
\* DEFECTIVE_EMAIL_ACTION with the suspension tier from streak 5 upwards
DEFECTIVE_EMAIL_ACTION_AtLeast5(es) ==
  IF es.CURRENT_DEFECTIVE_STATUS = 1
  THEN CASE es.EFFECTIVE_DEFECTIVE_STREAK = 1 -> FIRST_WARNING
         [] es.EFFECTIVE_DEFECTIVE_STREAK = 4 -> LAST_WARNING
         [] es.EFFECTIVE_DEFECTIVE_STREAK >= 5 -> SUSPENSION
         [] OTHER -> NO_ACTION
  ELSE NO_ACTION

\* EmailActions.DEFECTIVE_EMAIL_ACTION
DEFECTIVE_EMAIL_ACTION(es) ==
  IF es.CURRENT_DEFECTIVE_STATUS = 1
  THEN CASE es.EFFECTIVE_DEFECTIVE_STREAK = 1 -> FIRST_WARNING
         [] es.EFFECTIVE_DEFECTIVE_STREAK = 4 -> LAST_WARNING
         [] es.EFFECTIVE_DEFECTIVE_STREAK = 5 -> SUSPENSION
         [] OTHER -> NO_ACTION
  ELSE NO_ACTION

\* EmailActions.APPEARANCE_EMAIL_ACTION
APPEARANCE_EMAIL_ACTION(es) ==
  IF es.CURRENT_APPEARANCE_STATUS = 1
  THEN CASE es.EFFECTIVE_APPEARANCE_STREAK = 1 -> FIRST_WARNING
         [] es.EFFECTIVE_APPEARANCE_STREAK = 4 -> LAST_WARNING
         [] es.EFFECTIVE_APPEARANCE_STREAK = 5 -> SUSPENSION
         [] OTHER -> NO_ACTION
  ELSE NO_ACTION

\* FINAL_EMAIL_ACTION with the Last Warning test ahead of the Suspension test
FINAL_EMAIL_ACTION_LastFirst(es) ==
  IF \/ (es.EFFECTIVE_DEFECTIVE_STREAK = 4 /\ es.CURRENT_DEFECTIVE_STATUS = 1)
     \/ (es.EFFECTIVE_APPEARANCE_STREAK = 4 /\ es.CURRENT_APPEARANCE_STATUS = 1)
  THEN LAST_WARNING
  ELSE IF \/ (es.EFFECTIVE_DEFECTIVE_STREAK = 5 /\ es.CURRENT_DEFECTIVE_STATUS = 1)
          \/ (es.EFFECTIVE_APPEARANCE_STREAK = 5 /\ es.CURRENT_APPEARANCE_STATUS = 1)
  THEN SUSPENSION
  ELSE IF \/ (es.EFFECTIVE_DEFECTIVE_STREAK = 1 /\ es.CURRENT_DEFECTIVE_STATUS = 1)
          \/ (es.EFFECTIVE_APPEARANCE_STREAK = 1 /\ es.CURRENT_APPEARANCE_STATUS = 1)
  THEN FIRST_WARNING
  ELSE NO_ACTION

\* FINAL_EMAIL_ACTION that only looks at the appearance metric for the
\* First Warning tier
FINAL_EMAIL_ACTION_FirstAppearanceOnly(es) ==
  IF \/ (es.EFFECTIVE_DEFECTIVE_STREAK = 5 /\ es.CURRENT_DEFECTIVE_STATUS = 1)
     \/ (es.EFFECTIVE_APPEARANCE_STREAK = 5 /\ es.CURRENT_APPEARANCE_STATUS = 1)
  THEN SUSPENSION
  ELSE IF \/ (es.EFFECTIVE_DEFECTIVE_STREAK = 4 /\ es.CURRENT_DEFECTIVE_STATUS = 1)
          \/ (es.EFFECTIVE_APPEARANCE_STREAK = 4 /\ es.CURRENT_APPEARANCE_STATUS = 1)
  THEN LAST_WARNING
  ELSE IF (es.EFFECTIVE_APPEARANCE_STREAK = 1 /\ es.CURRENT_APPEARANCE_STATUS = 1)
  THEN FIRST_WARNING
  ELSE NO_ACTION

\* FINAL_EMAIL_ACTION with the First Warning tier for the streaks 1 to 3
FINAL_EMAIL_ACTION_FirstUpTo3(es) ==
  IF \/ (es.EFFECTIVE_DEFECTIVE_STREAK = 5 /\ es.CURRENT_DEFECTIVE_STATUS = 1)
     \/ (es.EFFECTIVE_APPEARANCE_STREAK = 5 /\ es.CURRENT_APPEARANCE_STATUS = 1)
  THEN SUSPENSION
  ELSE IF \/ (es.EFFECTIVE_DEFECTIVE_STREAK = 4 /\ es.CURRENT_DEFECTIVE_STATUS = 1)
          \/ (es.EFFECTIVE_APPEARANCE_STREAK = 4 /\ es.CURRENT_APPEARANCE_STATUS = 1)
  THEN LAST_WARNING
  ELSE IF \/ (es.EFFECTIVE_DEFECTIVE_STREAK \in 1..3 /\ es.CURRENT_DEFECTIVE_STATUS = 1)
          \/ (es.EFFECTIVE_APPEARANCE_STREAK \in 1..3 /\ es.CURRENT_APPEARANCE_STATUS = 1)
  THEN FIRST_WARNING
  ELSE NO_ACTION

\* EmailActions.FINAL_EMAIL_ACTION: first matching WHEN wins
FINAL_EMAIL_ACTION(es) ==
  IF \/ (es.EFFECTIVE_DEFECTIVE_STREAK = 5 /\ es.CURRENT_DEFECTIVE_STATUS = 1)
     \/ (es.EFFECTIVE_APPEARANCE_STREAK = 5 /\ es.CURRENT_APPEARANCE_STATUS = 1)
  THEN SUSPENSION
  ELSE IF \/ (es.EFFECTIVE_DEFECTIVE_STREAK = 4 /\ es.CURRENT_DEFECTIVE_STATUS = 1)
          \/ (es.EFFECTIVE_APPEARANCE_STREAK = 4 /\ es.CURRENT_APPEARANCE_STATUS = 1)
  THEN LAST_WARNING
  ELSE IF \/ (es.EFFECTIVE_DEFECTIVE_STREAK = 1 /\ es.CURRENT_DEFECTIVE_STATUS = 1)
          \/ (es.EFFECTIVE_APPEARANCE_STREAK = 1 /\ es.CURRENT_APPEARANCE_STATUS = 1)
  THEN FIRST_WARNING
  ELSE NO_ACTION

EmailActions(es) ==
  [DEFECTIVE_EMAIL_ACTION |-> DEFECTIVE_EMAIL_ACTION(es),
   APPEARANCE_EMAIL_ACTION |-> APPEARANCE_EMAIL_ACTION(es),
   FINAL_EMAIL_ACTION |-> FINAL_EMAIL_ACTION(es)]

\* ------------------------------------------------------------ final SELECT
\* DEFECTIVE_30D_LABEL with >= in place of > on the critical threshold
DEFECTIVE_30D_LABEL_AtLeast(es, d30) ==
  IF es.CURRENT_DEFECTIVE_STATUS = 1
     /\ COALESCE(d30.DEFECTIVE_RATE_30D, 0) >= DEFECTIVE_CRITICAL THEN "Critical"
  ELSE IF es.CURRENT_DEFECTIVE_STATUS = 1 THEN "Alerting"
  ELSE IF es.HISTORICAL_DEFECTIVE_STREAK > 0 THEN "Historical"
  ELSE ""

\* DEFECTIVE_30D_LABEL of the final SELECT
DEFECTIVE_30D_LABEL(es, d30) ==
  IF es.CURRENT_DEFECTIVE_STATUS = 1
     /\ COALESCE(d30.DEFECTIVE_RATE_30D, 0) > DEFECTIVE_CRITICAL THEN "Critical"
  ELSE IF es.CURRENT_DEFECTIVE_STATUS = 1 THEN "Alerting"
  ELSE IF es.HISTORICAL_DEFECTIVE_STREAK > 0 THEN "Historical"
  ELSE ""

\* APPEARANCE_ISSUE_LABEL of the final SELECT
APPEARANCE_ISSUE_LABEL(es, a30) ==
  IF es.CURRENT_APPEARANCE_STATUS = 1
     /\ COALESCE(a30.APPEARANCE_ISSUE_RATE_30D, 0) > APPEARANCE_CRITICAL THEN "Critical"
  ELSE IF es.CURRENT_APPEARANCE_STATUS = 1 THEN "Alerting"
  ELSE IF es.HISTORICAL_APPEARANCE_STREAK > 0 THEN "Historical"
  ELSE ""

\* WHERE of the final SELECT without the two upper limits on the streaks
FinalWhere_NoUpperLimit(es) ==
  es.EFFECTIVE_DEFECTIVE_STREAK > 0 \/ es.EFFECTIVE_APPEARANCE_STREAK > 0

\* WHERE of the final SELECT
FinalWhere(es) ==
  /\ (es.EFFECTIVE_DEFECTIVE_STREAK > 0 \/ es.EFFECTIVE_APPEARANCE_STREAK > 0)
  /\ es.EFFECTIVE_DEFECTIVE_STREAK <= MAX_REPORTED_STREAK
  /\ es.EFFECTIVE_APPEARANCE_STREAK <= MAX_REPORTED_STREAK

\* One row of the final SELECT, as a row of 20 cells of the sheet
FinalSelectRow(ls, d30, a30, es, ea, email) ==
  [length |-> 20,
   SELLER_ID |-> ls[1].SELLER_ID,
   SELLER_NAME |-> ls[1].SELLER_ID,
   DEFECTIVE_RATE_30D |-> COALESCE(d30.DEFECTIVE_RATE_30D, 0),
   NB_DEFECTIVE_30D |-> COALESCE(d30.NB_DEFECTIVE_30D, 0),
   CONSECUTIVE_DEFECTIVE_WEEKS |-> es.EFFECTIVE_DEFECTIVE_STREAK,
   DEFECTIVE_30D_LABEL |-> DEFECTIVE_30D_LABEL(es, d30),
   DEFECTIVE_EMAIL_ACTION |-> ea.DEFECTIVE_EMAIL_ACTION,
   APPEARANCE_ISSUE_RATE_30D |-> COALESCE(a30.APPEARANCE_ISSUE_RATE_30D, 0),
   NB_APPEARANCE_ISSUE_30D |-> COALESCE(a30.NB_APPEARANCE_ISSUE_30D, 0),
   CONSECUTIVE_APPEARANCE_WEEKS |-> es.EFFECTIVE_APPEARANCE_STREAK,
   APPEARANCE_ISSUE_LABEL |-> APPEARANCE_ISSUE_LABEL(es, a30),
   APPEARANCE_EMAIL_ACTION |-> ea.APPEARANCE_EMAIL_ACTION,
   FINAL_EMAIL_ACTION |-> ea.FINAL_EMAIL_ACTION,
   EMAIL |-> email]

\* The seller's EffectiveStreaks row for a run dated data_date (no row when
\* the seller has no history row on that date)
EffectiveStreaksOf(h, data_date) ==
  LET Joined(ls, nw) ==
        IF Len(ls) = 0 THEN << >>
        ELSE << EffectiveStreaks(CurrentStatus(Defective30D(ls), Appearance30D(ls)),
                                 LatestAppearanceStreak(AppearanceStreaks(AppearanceRuns(nw))),
                                 LatestDefectiveStreak(DefectiveStreaks(DefectiveRuns(nw)))) >>
  IN Joined(LatestSellerInfo(h, data_date), NumberedWeeks(WeeklyData(h)))

\* The final SELECT over the EffectiveStreaks / EmailActions rows esea of a
\* run dated data_date: the rows that pass the WHERE
FinalSelect(h, data_date, esea, email) ==
  LET Selected(ls) ==
        IF Len(esea) = 0 \/ ~FinalWhere(esea[1].es) THEN << >>
        ELSE << FinalSelectRow(ls, Defective30D(ls), Appearance30D(ls),
                               esea[1].es, esea[1].ea, email) >>
  IN Selected(LatestSellerInfo(h, data_date))

\* ------------------------------------------------------------------ inputs
\* address lists of the contact table, as the characters of the cell
CONTACT_EMAIL == << "a", "@", "b", ".", "c" >>

\* header row of the "Seller Quality" sheet
HEADER ==
  [length |-> 20, SELLER_ID |-> "SELLER_ID", SELLER_NAME |-> "SELLER_NAME",
   DEFECTIVE_RATE_30D |-> 0, NB_DEFECTIVE_30D |-> 0,
   CONSECUTIVE_DEFECTIVE_WEEKS |-> 0,
   DEFECTIVE_30D_LABEL |-> "DEFECTIVE_30D_LABEL",
   DEFECTIVE_EMAIL_ACTION |-> "DEFECTIVE_EMAIL_ACTION",
   APPEARANCE_ISSUE_RATE_30D |-> 0, NB_APPEARANCE_ISSUE_30D |-> 0,
   CONSECUTIVE_APPEARANCE_WEEKS |-> 0,
   APPEARANCE_ISSUE_LABEL |-> "APPEARANCE_ISSUE_LABEL",
   APPEARANCE_EMAIL_ACTION |-> "APPEARANCE_EMAIL_ACTION",
   FINAL_EMAIL_ACTION |-> "FINAL_EMAIL_ACTION",
   EMAIL |-> << "E", "M", "A", "I", "L" >>]

\* weekly figures (defective issues, appearance issues, delivered lines) a
\* Monday row of the history table may carry
WeekObs ==
  { [d |-> 5, a |-> 5, n |-> 0],
    [d |-> 4, a |-> 0, n |-> 100],
    [d |-> 3, a |-> 2, n |-> 100],
    [d |-> 10, a |-> 2, n |-> 200] }

HistoryRow(date, o) ==
  [DATE_KPI |-> date, SELLER_ID |-> SELLER,
   NB_DEFECTIVE_ISSUE |-> o.d, NB_APPEARANCE_ISSUE |-> o.a,
   NB_ORDERLINE_DELIVERED_30D |-> o.n]

\* ------------------------------------------------- Apps Script: Core.gs
HEADER_ROW_COUNT == 1

\* COLUMNS.EMAIL, the 0-based index of the last column the script reads
EMAIL == 19

EMAIL_TEMPLATES ==
  [FIRST_WARNING |-> "email_first_warning",
   LAST_WARNING |-> "email_last_warning",
   SUSPENSION |-> "email_suspension"]

TRACKING_SHEETS ==
  [MAIN |-> "Email Tracking",
   FIRST_WARNING |-> "First Warning Log",
   LAST_WARNING |-> "Last Warning Log",
   SUSPENSION |-> "Suspension Log"]

\* the characters \s matches among those the address cells are written in
WHITESPACE == {" "}

\* cell || default, for a cell whose empty value is empty
Or(cell, empty, default) == IF cell = empty THEN default ELSE cell

extractRowData(row) ==
  [sellerId |-> Or(row.SELLER_ID, "", ""),
   sellerName |-> Or(row.SELLER_NAME, "", ""),
   defectiveRate |-> Or(row.DEFECTIVE_RATE_30D, 0, 0),
   nbDefective30d |-> Or(row.NB_DEFECTIVE_30D, 0, 0),
   consecutiveDefectiveWeeks |-> Or(row.CONSECUTIVE_DEFECTIVE_WEEKS, 0, 0),
   defectiveLabel |-> Or(row.DEFECTIVE_30D_LABEL, "", ""),
   defectiveEmailAction |-> Or(row.DEFECTIVE_EMAIL_ACTION, "", NO_ACTION),
   appearanceRate |-> Or(row.APPEARANCE_ISSUE_RATE_30D, 0, 0),
   nbAppearanceIssue30d |-> Or(row.NB_APPEARANCE_ISSUE_30D, 0, 0),
   consecutiveAppearanceWeeks |-> Or(row.CONSECUTIVE_APPEARANCE_WEEKS, 0, 0),
   appearanceLabel |-> Or(row.APPEARANCE_ISSUE_LABEL, "", ""),
   appearanceEmailAction |-> Or(row.APPEARANCE_EMAIL_ACTION, "", NO_ACTION),
   finalEmailAction |-> Or(row.FINAL_EMAIL_ACTION, "", NO_ACTION),
   sellerEmail |-> Or(row.EMAIL, << >>, << >>),
   hasDefectiveIssue |-> row.DEFECTIVE_30D_LABEL # "",
   hasAppearanceIssue |-> row.APPEARANCE_ISSUE_LABEL # ""]

\* /^[^\s@]+@[^\s@]+\.[^\s@]+$/ on a non-empty string
isValidEmail(email) ==
  /\ Len(email) > 0
  /\ \E i \in 1..Len(email) : \E j \in 1..Len(email) :
        /\ email[i] = "@"
        /\ email[j] = "."
        /\ 1 < i
        /\ i + 1 < j
        /\ j < Len(email)
        /\ \A k \in (1..Len(email)) \ {i} : email[k] \notin WHITESPACE \cup {"@"}

\* Dates are written formatted to the second: the model counts time in
\* seconds from 1 and keeps a formatted date as that count. BLANK is the
\* empty date cell.
BLANK == 0

\* header rows of the tracking sheets; a sheet that does not exist is << >>
TRACKING_HEADER ==
  [header |-> << "Tracking ID", "Email Address", "Seller ID", "Email Type",
                 "Send Date/Time", "Open Date/Time", "Email Opened", "View Count" >>]

LOG_HEADER ==
  [header |-> << "Seller ID", "Seller Name", "Email Address", "Defective Rate",
                 "Defective Status", "Appearance Rate", "Appearance Status",
                 "Consecutive Defective Weeks", "Consecutive Appearance Weeks",
                 "Send Date/Time", "Response Date/Time", "Response Received",
                 "Resolution Status", "Notes" >>]

LogSheets ==
  {TRACKING_SHEETS.FIRST_WARNING, TRACKING_SHEETS.LAST_WARNING, TRACKING_SHEETS.SUSPENSION}

\* st: the spreadsheet's tracking sheets, the mail service and the id source
ensureTrackingSheets(st) ==
  [st EXCEPT !.tracking = IF @ = << >> THEN << TRACKING_HEADER >> ELSE @,
             !.logs = [n \in LogSheets |-> IF @[n] = << >> THEN << LOG_HEADER >> ELSE @[n]]]

\* ------------------------------------------------ Apps Script: Email.gs
\* String.prototype.split(',')
RECURSIVE split(_)
split(s) ==
  IF \A i \in 1..Len(s) : s[i] # "," THEN << s >>
  ELSE LET Cut(k) == << SubSeq(s, 1, k - 1) >> \o split(SubSeq(s, k + 1, Len(s)))
       IN Cut(CHOOSE i \in 1..Len(s) : s[i] = "," /\ \A j \in 1..(i - 1) : s[j] # ",")

\* String.prototype.trim()
trim(s) ==
  LET Kept(keep) ==
        IF keep = {} THEN << >>
        ELSE SubSeq(s, CHOOSE i \in keep : \A j \in keep : i <= j,
                       CHOOSE i \in keep : \A j \in keep : i >= j)
  IN Kept({i \in 1..Len(s) : s[i] \notin WHITESPACE})

recordTrackingId(st, trackingId, email, sellerId, emailAction, now) ==
  [st EXCEPT !.tracking =
     (IF @ = << >> THEN << TRACKING_HEADER >> ELSE @) \o
     << [trackingId |-> trackingId, email |-> email, sellerId |-> sellerId,
         emailType |-> emailAction, sendDate |-> now, openDate |-> BLANK,
         opened |-> "No", viewCount |-> 0] >>]

\* the id comes from Utilities.getUuid(): one never handed out before
generateTrackingPixel(st, sellerEmail, sellerId, emailAction, now) ==
  [recordTrackingId(st, st.nextId, sellerEmail, sellerId, emailAction, now)
     EXCEPT !.nextId = @ + 1]

\* recordEmailInTrackingSheet appending to the first warning log always
recordEmailInTrackingSheet_FirstLog(st, sheetName, data) ==
  [st EXCEPT !.logs[TRACKING_SHEETS.FIRST_WARNING] =
     (IF @ = << >> THEN << LOG_HEADER >> ELSE @) \o
     << [sellerId |-> data.sellerId, sellerName |-> data.sellerName,
         email |-> data.email,
         defectiveRate |-> data.defectiveRate, defectiveLabel |-> data.defectiveLabel,
         appearanceRate |-> data.appearanceRate, appearanceLabel |-> data.appearanceLabel,
         consecutiveDefectiveWeeks |-> data.consecutiveDefectiveWeeks,
         consecutiveAppearanceWeeks |-> data.consecutiveAppearanceWeeks,
         sendDate |-> data.sendDate, responseDate |-> BLANK, responseReceived |-> "No",
         resolutionStatus |-> "Pending", notes |-> ""] >>]

recordEmailInTrackingSheet(st, sheetName, data) ==
  [st EXCEPT !.logs[sheetName] =
     (IF @ = << >> THEN << LOG_HEADER >> ELSE @) \o
     << [sellerId |-> data.sellerId, sellerName |-> data.sellerName,
         email |-> data.email,
         defectiveRate |-> data.defectiveRate, defectiveLabel |-> data.defectiveLabel,
         appearanceRate |-> data.appearanceRate, appearanceLabel |-> data.appearanceLabel,
         consecutiveDefectiveWeeks |-> data.consecutiveDefectiveWeeks,
         consecutiveAppearanceWeeks |-> data.consecutiveAppearanceWeeks,
         sendDate |-> data.sendDate, responseDate |-> BLANK, responseReceived |-> "No",
         resolutionStatus |-> "Pending", notes |-> ""] >>]

\* GmailApp.sendEmail: throws once the quota of the run is used up
sendEmail(st, email, mail) ==
  [st EXCEPT !.outbox = Append(@, [mail EXCEPT !.to = email]), !.quota = @ - 1]

\* sendToEach leaving the loop at the first invalid address
RECURSIVE sendToEach_StopAtInvalid(_, _, _, _, _, _, _, _)
sendToEach_StopAtInvalid(emailAddresses, i, successCount, st, mail, trackingSheetName, data, now) ==
  IF i > Len(emailAddresses)
  THEN [threw |-> FALSE, successCount |-> successCount, st |-> st]
  ELSE IF ~isValidEmail(emailAddresses[i])
  THEN [threw |-> FALSE, successCount |-> successCount, st |-> st]
  ELSE IF st.quota = 0
  THEN [threw |-> TRUE, successCount |-> successCount, st |-> st]
  ELSE sendToEach_StopAtInvalid(
         emailAddresses, i + 1, successCount + 1,
         recordEmailInTrackingSheet(
           sendEmail(st, emailAddresses[i], mail), trackingSheetName,
           [sellerId |-> data.sellerId, sellerName |-> data.sellerName,
            email |-> emailAddresses[i], emailType |-> data.finalEmailAction,
            defectiveRate |-> data.defectiveRate,
            defectiveLabel |-> data.defectiveLabel,
            appearanceRate |-> data.appearanceRate,
            appearanceLabel |-> data.appearanceLabel,
            consecutiveDefectiveWeeks |-> data.consecutiveDefectiveWeeks,
            consecutiveAppearanceWeeks |-> data.consecutiveAppearanceWeeks,
            sendDate |-> now]),
         mail, trackingSheetName, data, now)

\* the loop over the recipients of one seller; threw: sendEmail threw and
\* the loop was left through the catch
RECURSIVE sendToEach(_, _, _, _, _, _, _, _)
sendToEach(emailAddresses, i, successCount, st, mail, trackingSheetName, data, now) ==
  IF i > Len(emailAddresses)
  THEN [threw |-> FALSE, successCount |-> successCount, st |-> st]
  ELSE IF ~isValidEmail(emailAddresses[i])
  THEN sendToEach(emailAddresses, i + 1, successCount, st, mail, trackingSheetName, data, now)
  ELSE IF st.quota = 0
  THEN [threw |-> TRUE, successCount |-> successCount, st |-> st]
  ELSE sendToEach(emailAddresses, i + 1, successCount + 1,
                  recordEmailInTrackingSheet(
                    sendEmail(st, emailAddresses[i], mail), trackingSheetName,
                    [sellerId |-> data.sellerId, sellerName |-> data.sellerName,
                     email |-> emailAddresses[i], emailType |-> data.finalEmailAction,
                     defectiveRate |-> data.defectiveRate,
                     defectiveLabel |-> data.defectiveLabel,
                     appearanceRate |-> data.appearanceRate,
                     appearanceLabel |-> data.appearanceLabel,
                     consecutiveDefectiveWeeks |-> data.consecutiveDefectiveWeeks,
                     consecutiveAppearanceWeeks |-> data.consecutiveAppearanceWeeks,
                     sendDate |-> now]),
                  mail, trackingSheetName, data, now)

\* loadTemplate giving up when the template of the tier fails to load
loadTemplate_NoFallback(templateName, broken) ==
  IF templateName \notin broken THEN templateName ELSE ""

\* the template an email is built from: the one named, the first warning
\* template when that fails to load, "" when both fail
loadTemplate(templateName, broken) ==
  IF templateName \notin broken THEN templateName
  ELSE IF EMAIL_TEMPLATES.FIRST_WARNING \notin broken
       THEN EMAIL_TEMPLATES.FIRST_WARNING
       ELSE ""

\* broken: the template files createTemplateFromFile fails to load
sendQualityNotification(data, st, now, broken) ==
  IF data.finalEmailAction \notin {FIRST_WARNING, LAST_WARNING, SUSPENSION}
  THEN [emailSent |-> FALSE, st |-> st]
  ELSE LET Send(templateName, subjectTemplate, trackingSheetName) ==
             LET Loaded(htmlTemplate) ==
                   IF htmlTemplate = "" THEN [emailSent |-> FALSE, st |-> st]
                   ELSE LET Done(r) == [emailSent |-> ~r.threw /\ r.successCount > 0,
                                        st |-> r.st]
                        IN Done(sendToEach(
                             Relation([k \in 1..Len(split(data.sellerEmail)) |->
                                         trim(split(data.sellerEmail)[k])]),
                             1, 0,
                             generateTrackingPixel(st, data.sellerEmail, data.sellerId,
                                                   data.finalEmailAction, now),
                             [to |-> << >>, subject |-> subjectTemplate,
                              sellerName |-> data.sellerName,
                              sellerId |-> data.sellerId,
                              template |-> htmlTemplate,
                              finalEmailAction |-> data.finalEmailAction,
                              defectiveLabel |-> data.defectiveLabel,
                              appearanceLabel |-> data.appearanceLabel,
                              hasDefectiveIssue |-> data.hasDefectiveIssue,
                              hasAppearanceIssue |-> data.hasAppearanceIssue,
                              trackingId |-> st.nextId],
                             trackingSheetName,
                             data, now))
             IN Loaded(loadTemplate(templateName, broken))
       IN CASE data.finalEmailAction = FIRST_WARNING ->
                 Send(EMAIL_TEMPLATES.FIRST_WARNING, "FIRST_WARNING",
                      TRACKING_SHEETS.FIRST_WARNING)
            [] data.finalEmailAction = LAST_WARNING ->
                 Send(EMAIL_TEMPLATES.LAST_WARNING, "LAST_WARNING",
                      TRACKING_SHEETS.LAST_WARNING)
            [] data.finalEmailAction = SUSPENSION ->
                 Send(EMAIL_TEMPLATES.SUSPENSION, "SUSPENSION",
                      TRACKING_SHEETS.SUSPENSION)

\* recordEmailOpen writing the open date at every open
recordEmailOpen_Restamp(tracking, trackingId, now) ==
  IF tracking = << >> THEN tracking
  ELSE LET Found(rows) ==
             IF rows = {} THEN tracking
             ELSE LET Update(i) ==
                        IF tracking[i].opened = "No"
                        THEN [tracking EXCEPT ![i].openDate = now,
                                              ![i].opened = "Yes",
                                              ![i].viewCount = 1]
                        ELSE [tracking EXCEPT ![i].openDate = now,
                                              ![i].viewCount = tracking[i].viewCount + 1]
                  IN Update(CHOOSE i \in rows : \A j \in rows : i <= j)
       IN Found({i \in 2..Len(tracking) : tracking[i].trackingId = trackingId})

\* recordEmailOpen counting an open of an unknown id on the last record
recordEmailOpen_CountsUnknown(tracking, trackingId, now) ==
  IF tracking = << >> THEN tracking
  ELSE LET Update(i) ==
             IF tracking[i].opened = "No"
             THEN [tracking EXCEPT ![i].openDate = now,
                                   ![i].opened = "Yes",
                                   ![i].viewCount = 1]
             ELSE [tracking EXCEPT ![i].viewCount = tracking[i].viewCount + 1]
           Found(rows) ==
             IF rows = {} THEN (IF Len(tracking) > 1 THEN Update(Len(tracking)) ELSE tracking)
             ELSE Update(CHOOSE i \in rows : \A j \in rows : i <= j)
       IN Found({i \in 2..Len(tracking) : tracking[i].trackingId = trackingId})

\* the open of the tracking pixel of trackingId at time now
recordEmailOpen(tracking, trackingId, now) ==
  IF tracking = << >> THEN tracking
  ELSE LET Found(rows) ==
             IF rows = {} THEN tracking
             ELSE LET Update(i) ==
                        IF tracking[i].opened = "No"
                        THEN [tracking EXCEPT ![i].openDate = now,
                                              ![i].opened = "Yes",
                                              ![i].viewCount = 1]
                        ELSE [tracking EXCEPT ![i].viewCount = tracking[i].viewCount + 1]
                  IN Update(CHOOSE i \in rows : \A j \in rows : i <= j)
       IN Found({i \in 2..Len(tracking) : tracking[i].trackingId = trackingId})

\* Number(x) of a seller id cell or parameter; NaN for an id that is not
\* the text of a number. The ids of the model are listed here.
NaN == -1

Number(id) ==
  CASE id = "" -> 0
    [] id = "0" -> 0
    [] id = "1001" -> 1001
    [] id = "01001" -> 1001
    [] OTHER -> NaN

\* String(x).trim() of a seller id; the ids of the model carry no blanks
trimmedId(id) == id

\* rowIdString === searchIdString || rowIdNumber === searchIdNumber
\* (NaN is equal to nothing)
idMatches(rowData, sellerId) ==
  \/ trimmedId(rowData) = trimmedId(sellerId)
  \/ /\ Number(rowData) # NaN
     /\ Number(sellerId) # NaN
     /\ Number(rowData) = Number(sellerId)

\* updateSellerResponseStatus taking the first warning log for an unknown
\* email type
updateSellerResponseStatus_DefaultLog(logs, sellerId, emailType, status, notes, now) ==
  LET In(trackingSheetName) ==
        IF logs[trackingSheetName] = << >>
        THEN [success |-> FALSE, logs |-> logs]
        ELSE LET Found(rows) ==
                   IF rows = {} THEN [success |-> FALSE, logs |-> logs]
                   ELSE LET Update(i) ==
                              [success |-> TRUE,
                               logs |->
                                 [logs EXCEPT
                                    ![trackingSheetName][i].responseDate = now,
                                    ![trackingSheetName][i].responseReceived = "Yes",
                                    ![trackingSheetName][i].resolutionStatus = status,
                                    ![trackingSheetName][i].notes =
                                       IF notes # "" THEN notes ELSE @]]
                        IN Update(CHOOSE i \in rows : \A j \in rows : i <= j)
             IN Found({i \in 2..Len(logs[trackingSheetName]) :
                         idMatches(logs[trackingSheetName][i].sellerId, sellerId)})
  IN In(CASE emailType = LAST_WARNING -> TRACKING_SHEETS.LAST_WARNING
          [] emailType = SUSPENSION -> TRACKING_SHEETS.SUSPENSION
          [] OTHER -> TRACKING_SHEETS.FIRST_WARNING)

\* updateSellerResponseStatus without the break: every matching row is updated
updateSellerResponseStatus_AllMatches(logs, sellerId, emailType, status, notes, now) ==
  IF emailType \notin {FIRST_WARNING, LAST_WARNING, SUSPENSION}
  THEN [success |-> FALSE, logs |-> logs]
  ELSE LET In(trackingSheetName) ==
             IF logs[trackingSheetName] = << >>
             THEN [success |-> FALSE, logs |-> logs]
             ELSE LET Found(rows) ==
                        IF rows = {} THEN [success |-> FALSE, logs |-> logs]
                        ELSE [success |-> TRUE,
                              logs |->
                                [logs EXCEPT ![trackingSheetName] =
                                   [i \in DOMAIN @ |->
                                      IF i \in rows
                                      THEN [@[i] EXCEPT
                                              !.responseDate = now,
                                              !.responseReceived = "Yes",
                                              !.resolutionStatus = status,
                                              !.notes = IF notes # "" THEN notes ELSE @]
                                      ELSE @[i]]]]
                  IN Found({i \in 2..Len(logs[trackingSheetName]) :
                              idMatches(logs[trackingSheetName][i].sellerId, sellerId)})
       IN In(CASE emailType = FIRST_WARNING -> TRACKING_SHEETS.FIRST_WARNING
               [] emailType = LAST_WARNING -> TRACKING_SHEETS.LAST_WARNING
               [] emailType = SUSPENSION -> TRACKING_SHEETS.SUSPENSION)

\* the status update of the first record of sellerId in the log of emailType
updateSellerResponseStatus(logs, sellerId, emailType, status, notes, now) ==
  IF emailType \notin {FIRST_WARNING, LAST_WARNING, SUSPENSION}
  THEN [success |-> FALSE, logs |-> logs]
  ELSE LET In(trackingSheetName) ==
             IF logs[trackingSheetName] = << >>
             THEN [success |-> FALSE, logs |-> logs]
             ELSE LET Found(rows) ==
                        IF rows = {} THEN [success |-> FALSE, logs |-> logs]
                        ELSE LET Update(i) ==
                                   [success |-> TRUE,
                                    logs |->
                                      [logs EXCEPT
                                         ![trackingSheetName][i].responseDate = now,
                                         ![trackingSheetName][i].responseReceived = "Yes",
                                         ![trackingSheetName][i].resolutionStatus = status,
                                         ![trackingSheetName][i].notes =
                                            IF notes # "" THEN notes ELSE @]]
                             IN Update(CHOOSE i \in rows : \A j \in rows : i <= j)
                  IN Found({i \in 2..Len(logs[trackingSheetName]) :
                              idMatches(logs[trackingSheetName][i].sellerId, sellerId)})
       IN In(CASE emailType = FIRST_WARNING -> TRACKING_SHEETS.FIRST_WARNING
               [] emailType = LAST_WARNING -> TRACKING_SHEETS.LAST_WARNING
               [] emailType = SUSPENSION -> TRACKING_SHEETS.SUSPENSION)

\* ---------------------------------------------------- Apps Script: UI.gs
NOT_FOUND == "No tracking information found for seller ID"

\* the text of the history of sellerId: the number of its emails in the
\* main tracking sheet and of its records in the three logs, or NOT_FOUND
showSellerTrackingHistory(tracking, logs, sellerId) ==
  LET Text(sellerEmails, detailedInfo) ==
        IF sellerEmails = 0 /\ detailedInfo = 0
        THEN [message |-> NOT_FOUND, emails |-> 0, details |-> 0]
        ELSE [message |-> "history", emails |-> sellerEmails, details |-> detailedInfo]
      InLog(sheetName) ==
        Cardinality({i \in 2..Len(logs[sheetName]) :
                       trimmedId(logs[sheetName][i].sellerId) = trimmedId(sellerId)})
  IN Text(Cardinality({i \in 2..Len(tracking) :
                         trimmedId(tracking[i].sellerId) = trimmedId(sellerId)}),
          InLog(TRACKING_SHEETS.FIRST_WARNING) + InLog(TRACKING_SHEETS.LAST_WARNING)
            + InLog(TRACKING_SHEETS.SUSPENSION))

\* verifySellerExists: the email types of the logs that hold a record of
\* sellerId, in the order of the logs, one entry per record
verifySellerExists(logs, sellerId) ==
  LET Types(sheetName, emailType) ==
        Relation([k \in 1..Cardinality({i \in 2..Len(logs[sheetName]) :
                                          idMatches(logs[sheetName][i].sellerId, sellerId)})
                    |-> emailType])
      Result(emailTypes) == [exists |-> emailTypes # << >>, emailTypes |-> emailTypes]
  IN Result(Types(TRACKING_SHEETS.FIRST_WARNING, FIRST_WARNING)
              \o Types(TRACKING_SHEETS.LAST_WARNING, LAST_WARNING)
              \o Types(TRACKING_SHEETS.SUSPENSION, SUSPENSION))

\* ------------------------------------------------ Apps Script: Webhook.gs
\* what a call returns to its caller: the pixel, a page, or a plain result
Response(type, title, message, emails, details) ==
  [type |-> type, title |-> title, message |-> message,
   emails |-> emails, details |-> details]

\* ------------------------------------------------- Apps Script: Main.gs
ZERO_STATS ==
  [processed |-> 0, emailsSent |-> 0, firstWarnings |-> 0, lastWarnings |-> 0,
   suspensions |-> 0, errors |-> 0, skippedNoEmail |-> 0]

\* processRow without the continue of a row that has no email: the row is
\* counted as skipped and goes on to the send, which fails
processRow_NoContinue(row, acc, now, broken) ==
  LET Counted(stats) ==
        IF row.length <= EMAIL THEN [acc EXCEPT !.stats = stats]
        ELSE LET Extracted(rowData) ==
                   IF rowData.sellerEmail = << >>
                   THEN [acc EXCEPT !.stats = [stats EXCEPT !.skippedNoEmail = @ + 1,
                                                            !.errors = @ + 1]]
                   ELSE IF rowData.finalEmailAction = NO_ACTION
                   THEN [acc EXCEPT !.stats = stats]
                   ELSE LET Sent(r) ==
                              IF r.emailSent
                              THEN [stats |->
                                      [stats EXCEPT
                                         !.emailsSent = @ + 1,
                                         !.firstWarnings =
                                            IF rowData.finalEmailAction = FIRST_WARNING
                                            THEN @ + 1 ELSE @,
                                         !.lastWarnings =
                                            IF rowData.finalEmailAction = LAST_WARNING
                                            THEN @ + 1 ELSE @,
                                         !.suspensions =
                                            IF rowData.finalEmailAction = SUSPENSION
                                            THEN @ + 1 ELSE @],
                                    st |-> r.st]
                              ELSE [stats |-> [stats EXCEPT !.errors = @ + 1],
                                    st |-> r.st]
                        IN Sent(sendQualityNotification(rowData, acc.st, now, broken))
             IN Extracted(extractRowData(row))
  IN Counted([acc.stats EXCEPT !.processed = @ + 1])

\* one pass of the loop body of processData over a sheet row
processRow(row, acc, now, broken) ==
  LET Counted(stats) ==
        IF row.length <= EMAIL THEN [acc EXCEPT !.stats = stats]
        ELSE LET Extracted(rowData) ==
                   IF rowData.sellerEmail = << >>
                   THEN [acc EXCEPT !.stats = [stats EXCEPT !.skippedNoEmail = @ + 1]]
                   ELSE IF rowData.finalEmailAction = NO_ACTION
                   THEN [acc EXCEPT !.stats = stats]
                   ELSE LET Sent(r) ==
                              IF r.emailSent
                              THEN [stats |->
                                      [stats EXCEPT
                                         !.emailsSent = @ + 1,
                                         !.firstWarnings =
                                            IF rowData.finalEmailAction = FIRST_WARNING
                                            THEN @ + 1 ELSE @,
                                         !.lastWarnings =
                                            IF rowData.finalEmailAction = LAST_WARNING
                                            THEN @ + 1 ELSE @,
                                         !.suspensions =
                                            IF rowData.finalEmailAction = SUSPENSION
                                            THEN @ + 1 ELSE @],
                                    st |-> r.st]
                              ELSE [stats |-> [stats EXCEPT !.errors = @ + 1],
                                    st |-> r.st]
                        IN Sent(sendQualityNotification(rowData, acc.st, now, broken))
             IN Extracted(extractRowData(row))
  IN Counted([acc.stats EXCEPT !.processed = @ + 1])

\* processRows leaving the loop at the first row counted as an error
RECURSIVE processRows_StopAtFailure(_, _, _, _, _)
processRows_StopAtFailure(data, i, acc, now, broken) ==
  IF i > Len(data) THEN acc
  ELSE LET After(a) ==
             IF a.stats.errors > acc.stats.errors THEN a
             ELSE processRows_StopAtFailure(data, i + 1, a, now, broken)
       IN After(processRow(data[i], acc, now, broken))

RECURSIVE processRows(_, _, _, _, _)
processRows(data, i, acc, now, broken) ==
  IF i > Len(data) THEN acc
  ELSE processRows(data, i + 1, processRow(data[i], acc, now, broken), now, broken)

processData(data, st, now, broken) ==
  processRows(data, HEADER_ROW_COUNT + 1,
              [stats |-> ZERO_STATS, st |-> ensureTrackingSheets(st)], now, broken)

\* the template files that may fail to load in a run
TemplateFaults == SUBSET {EMAIL_TEMPLATES.FIRST_WARNING, EMAIL_TEMPLATES.LAST_WARNING,
                          EMAIL_TEMPLATES.SUSPENSION}

\* ------------------------------------- Apps Script: properties, triggers
\* the script properties before any is set
NO_PROPERTIES ==
  [TEMP_SELECTED_STATUS |-> "", PENDING_ALERT_TITLE |-> "", PENDING_ALERT_MESSAGE |-> ""]

\* setSelectedStatus: the button of the status dialog stores its status
setSelectedStatus(properties, status) ==
  [properties EXCEPT !.TEMP_SELECTED_STATUS = status]

\* an installable trigger; the time of its creation stands for its unique id
Trigger(handler, eventType, now) ==
  [handler |-> handler, eventType |-> eventType, uniqueId |-> now]

\* showAlert where SpreadsheetApp.getUi() throws (a trigger, the web app):
\* the alert is stored for later and an onOpen trigger shows it, created
\* unless the project has one
showAlert(properties, triggers, title, message, now) ==
  [properties |-> [properties EXCEPT !.PENDING_ALERT_TITLE = title,
                                     !.PENDING_ALERT_MESSAGE = message],
   triggers |-> IF \E i \in 1..Len(triggers) : triggers[i].eventType = "ON_OPEN"
                THEN triggers
                ELSE Append(triggers, Trigger("showPendingAlerts", "ON_OPEN", now))]

\* setWeeklySchedule creating its trigger next to the existing ones
setWeeklySchedule_KeepExisting(triggers, fault, now) ==
  [triggers |-> Append(triggers, Trigger("main", "CLOCK", now)), success |-> TRUE]

\* setWeeklySchedule: every trigger of the project is deleted, then the
\* weekly trigger of main is created. fault: NULL, or the call to ScriptApp
\* that throws, counted from 1 over the deletions and the creation; the
\* catch returns false with what was done so far.
setWeeklySchedule(triggers, fault, now) ==
  IF fault = NULL
  THEN [triggers |-> << Trigger("main", "CLOCK", now) >>, success |-> TRUE]
  ELSE IF fault <= Len(triggers)
  THEN [triggers |-> SubSeq(triggers, fault, Len(triggers)), success |-> FALSE]
  ELSE [triggers |-> << >>, success |-> FALSE]

\* an invocation of the Update Response Status dialog that has not begun
NO_DIALOG ==
  [pc |-> "idle", sellerId |-> "", emailType |-> "", open |-> FALSE,
   selected |-> "", status |-> ""]

\* a tracking pixel request that has not arrived
NO_REQUEST == [pc |-> "new", trackingId |-> NULL, data |-> << >>]

\* the writes of recordEmailOpen, decided on the rows it read (data) and
\* made to the sheet as it is when they are made
recordEmailOpen_setValues(tracking, data, trackingId, now) ==
  LET Found(rows) ==
        IF rows = {} THEN tracking
        ELSE LET Update(i) ==
                   IF i > Len(tracking) THEN tracking
                   ELSE IF data[i].opened = "No"
                   THEN [tracking EXCEPT ![i].openDate = now,
                                         ![i].opened = "Yes",
                                         ![i].viewCount = 1]
                   ELSE [tracking EXCEPT ![i].viewCount = data[i].viewCount + 1]
             IN Update(CHOOSE i \in rows : \A j \in rows : i <= j)
  IN Found({i \in 2..Len(data) : data[i].trackingId = trackingId})

\* ------------------------------------------------------------------- state
VARIABLES
  history,    \* the seller's Monday rows of the history table, by date
  data_date,  \* the Monday of the latest report
  cte,        \* EffectiveStreaks and EmailActions rows of the latest report
              \* (0 or 1 row: [es |-> ..., ea |-> ...])
  prev,       \* the same rows of the previous report that had the seller
  sheet,      \* rows of the "Seller Quality" sheet, header first
  tracking,   \* rows of the "Email Tracking" sheet, header first
  logs,       \* rows of the three log sheets, header first, by sheet name
  outbox,     \* the emails GmailApp has sent, in order
  stats,      \* the statistics of the latest processData
  nextId,     \* tracking ids handed out so far
  clock,      \* the current time
  runs,       \* runs of main() on the current content of the sheet
  response,   \* what the latest call of a web or menu entry point returned
  env,        \* what the latest run of main() met: the templates that failed
              \* to load and the emails the mail service accepted
  properties, \* the script properties the code uses ("" when not set)
  dialogs,    \* the invocations of the Update Response Status dialog
  requests,   \* the tracking pixel requests served side by side
  triggers    \* the installable triggers of the project

vars == << history, data_date, cte, prev, sheet, tracking, logs, outbox, stats,
           nextId, clock, runs, response, env, properties, dialogs, requests,
           triggers >>

\* -------------------------------------------------------------- operations
\* The weekly report: the history table has received this Monday's rows
\* (none when the seller has no figures that week) and the query result
\* replaces the content of the sheet.
RunQuery(newRows) ==
  /\ data_date < MaxWeek
  /\ data_date' = data_date + 1
  /\ history' = history \o Relation([i \in 1..Len(newRows) |-> HistoryRow(data_date + 1, newRows[i])])
  /\ cte' = LET Rows(esq) ==
                  Relation([i \in 1..Len(esq) |-> [es |-> esq[i], ea |-> EmailActions(esq[i])]])
            IN Rows(EffectiveStreaksOf(history', data_date'))
  /\ prev' = IF Len(cte) = 1 THEN cte ELSE prev
  /\ sheet' = << HEADER >> \o FinalSelect(history', data_date', cte', CONTACT_EMAIL)
  /\ runs' = 0
  /\ UNCHANGED << tracking, logs, outbox, stats, nextId, clock, response, env >>
  /\ UNCHANGED << properties, dialogs, requests, triggers >>

\* main(): one run of the script over the sheet, by the weekly trigger or
\* from the menu. broken: the templates that fail to load; quota: the
\* number of emails the mail service accepts in this run.
main(broken, quota) ==
  /\ runs < MaxRuns
  /\ runs' = runs + 1
  /\ clock' = clock + 1
  /\ IF Len(sheet) <= HEADER_ROW_COUNT
     THEN UNCHANGED << tracking, logs, outbox, stats, nextId >>
     ELSE LET Result(acc) ==
                /\ tracking' = acc.st.tracking
                /\ logs' = acc.st.logs
                /\ outbox' = acc.st.outbox
                /\ nextId' = acc.st.nextId
                /\ stats' = acc.stats
          IN Result(processData(sheet,
                                [tracking |-> tracking, logs |-> logs, outbox |-> outbox,
                                 nextId |-> nextId, quota |-> quota],
                                clock, broken))
  /\ env' = [broken |-> broken, quota |-> quota]
  /\ UNCHANGED << history, data_date, cte, prev, sheet, response >>
  /\ UNCHANGED << properties, dialogs, requests, triggers >>

\* doGet with action=open and id=trackingId: the tracking pixel is loaded;
\* trackingId is NULL when the request carries no id
doGet_open(trackingId) ==
  /\ IF trackingId = NULL
     THEN /\ tracking' = tracking
          /\ response' = Response("HTML", "Documentation", "", 0, 0)
     ELSE /\ tracking' = recordEmailOpen(tracking, trackingId, clock)
          /\ response' = Response("IMAGE", "", "GIF89a", 0, 0)
  /\ clock' = clock + 1
  /\ UNCHANGED << history, data_date, cte, prev, sheet, logs, outbox, stats,
                  nextId, runs, env >>
  /\ UNCHANGED << properties, dialogs, requests, triggers >>

\* doGet with action=updateResponse; a parameter that is absent is ""
doGet_updateResponse(sellerId, emailType, status, notes) ==
  /\ IF sellerId = "" \/ emailType = ""
     THEN /\ response' = Response("HTML", "Error", "Missing required parameters", 0, 0)
          /\ logs' = logs
     ELSE LET Page(r) ==
                /\ logs' = r.logs
                /\ response' =
                     IF r.success
                     THEN Response("HTML", "Success", "Response status has been updated", 0, 0)
                     ELSE Response("HTML", "Error", "Failed to update response status", 0, 0)
          IN Page(updateSellerResponseStatus(
                    logs, sellerId, emailType,
                    IF status = "" THEN "Resolved" ELSE status,
                    IF notes = "" THEN "Updated via direct action" ELSE notes,
                    clock))
  /\ clock' = clock + 1
  /\ UNCHANGED << history, data_date, cte, prev, sheet, tracking, outbox, stats,
                  nextId, runs, env >>
  /\ UNCHANGED << properties, dialogs, requests, triggers >>

\* doGet with action=viewHistory and a seller id; the web app has no
\* spreadsheet UI, so showSellerTrackingHistory ends in showAlert: with its
\* text when there is no detail, with the error of showModalDialog otherwise
doGet_viewHistory(sellerId) ==
  /\ sellerId # ""
  /\ LET Shown(historyText) ==
           /\ response' = Response("HTML", "Seller History", historyText.message,
                                    historyText.emails, historyText.details)
           /\ LET Stored(a) ==
                     /\ properties' = a.properties
                     /\ triggers' = a.triggers
              IN Stored(IF historyText.details > 0
                        THEN showAlert(properties, triggers, "Error",
                                       "Could not display tracking history", clock)
                        ELSE showAlert(properties, triggers, "Tracking History",
                                       historyText.message, clock))
     IN Shown(showSellerTrackingHistory(tracking, logs, sellerId))
  /\ clock' = clock + 1
  /\ UNCHANGED << history, data_date, cte, prev, sheet, tracking, logs, outbox,
                  stats, nextId, runs, env, dialogs, requests >>

\* recordSellerResponse, called from the script editor
recordSellerResponse(sellerId, emailType, status, notes) ==
  /\ LET Returned(r) ==
           /\ logs' = r.logs
           /\ response' = Response("RESULT", "", IF r.success THEN "true" ELSE "false", 0, 0)
     IN Returned(updateSellerResponseStatus(logs, sellerId, emailType, status, notes, clock))
  /\ clock' = clock + 1
  /\ UNCHANGED << history, data_date, cte, prev, sheet, tracking, outbox, stats,
                  nextId, runs, env >>
  /\ UNCHANGED << properties, dialogs, requests, triggers >>

\* verifySellerExists, called by the Update Response Status dialog with
\* the seller id typed in
run_verifySellerExists(sellerId) ==
  /\ response' =
       LET Returned(r) ==
             Response("RESULT", "", IF r.exists THEN "true" ELSE "false",
                      0, Len(r.emailTypes))
       IN Returned(verifySellerExists(logs, sellerId))
  /\ clock' = clock + 1
  /\ UNCHANGED << history, data_date, cte, prev, sheet, tracking, logs, outbox,
                  stats, nextId, runs, env >>
  /\ UNCHANGED << properties, dialogs, requests, triggers >>

\* setWeeklySchedule, from the menu
run_setWeeklySchedule(fault) ==
  /\ LET Returned(r) ==
           /\ triggers' = r.triggers
           /\ response' = Response("RESULT", "", IF r.success THEN "true" ELSE "false", 0, 0)
     IN Returned(setWeeklySchedule(triggers, fault, clock))
  /\ clock' = clock + 1
  /\ UNCHANGED << history, data_date, cte, prev, sheet, tracking, logs, outbox,
                  stats, nextId, runs, env, properties, dialogs, requests >>

\* the weekly trigger runs main()
trigger_main(quota) ==
  /\ \E i \in 1..Len(triggers) : triggers[i].handler = "main"
  /\ main({}, quota)

\* showImprovedUpdateStatusDialog, invocation d, from the menu to the
\* display of the status dialog: the seller id and the number of one of
\* the seller's email types are typed in
showImprovedUpdateStatusDialog_begin(d, sellerId, typeIndex) ==
  /\ dialogs[d].pc = "idle"
  /\ LET Verified(validSeller) ==
           IF /\ sellerId # ""
              /\ validSeller.exists
              /\ typeIndex \in 1..Len(validSeller.emailTypes)
           THEN dialogs' = [dialogs EXCEPT ![d] =
                              [@ EXCEPT !.pc = "polling", !.sellerId = sellerId,
                                        !.emailType = validSeller.emailTypes[typeIndex],
                                        !.open = TRUE]]
           ELSE dialogs' = [dialogs EXCEPT ![d].pc = "returned"]
     IN Verified(verifySellerExists(logs, sellerId))
  /\ UNCHANGED << history, data_date, cte, prev, sheet, tracking, logs, outbox,
                  stats, nextId, clock, runs, response, env, properties, requests,
                  triggers >>

\* a status button of the dialog of invocation d is clicked; the dialog
\* stays on the screen until then, also after its invocation has returned
run_setSelectedStatus(d, status) ==
  /\ dialogs[d].open
  /\ properties' = setSelectedStatus(properties, status)
  /\ dialogs' = [dialogs EXCEPT ![d] = [@ EXCEPT !.open = FALSE, !.selected = status]]
  /\ UNCHANGED << history, data_date, cte, prev, sheet, tracking, logs, outbox,
                  stats, nextId, clock, runs, response, env, requests, triggers >>

\* the dialog of invocation d is closed without a status
run_cancel(d) ==
  /\ dialogs[d].open
  /\ dialogs' = [dialogs EXCEPT ![d].open = FALSE]
  /\ UNCHANGED << history, data_date, cte, prev, sheet, tracking, logs, outbox,
                  stats, nextId, clock, runs, response, env, properties, requests,
                  triggers >>

\* showImprovedUpdateStatusDialog, invocation d: the polling loop finds
\* TEMP_SELECTED_STATUS set, deletes it, and the update is confirmed or not
showImprovedUpdateStatusDialog_status(d, notes, confirmed) ==
  /\ dialogs[d].pc = "polling"
  /\ properties.TEMP_SELECTED_STATUS # ""
  /\ properties' = [properties EXCEPT !.TEMP_SELECTED_STATUS = ""]
  /\ dialogs' = [dialogs EXCEPT ![d] =
                   [@ EXCEPT !.pc = "returned",
                             !.status = properties.TEMP_SELECTED_STATUS]]
  /\ IF confirmed
     THEN logs' = updateSellerResponseStatus(logs, dialogs[d].sellerId,
                                             dialogs[d].emailType,
                                             properties.TEMP_SELECTED_STATUS,
                                             notes, clock).logs
     ELSE logs' = logs
  /\ UNCHANGED << history, data_date, cte, prev, sheet, tracking, outbox,
                  stats, nextId, clock, runs, response, env, requests, triggers >>

\* showImprovedUpdateStatusDialog, invocation d: two minutes of polling
\* found no status
showImprovedUpdateStatusDialog_timeout(d) ==
  /\ dialogs[d].pc = "polling"
  /\ properties.TEMP_SELECTED_STATUS = ""
  /\ dialogs' = [dialogs EXCEPT ![d].pc = "returned"]
  /\ UNCHANGED << history, data_date, cte, prev, sheet, tracking, logs, outbox,
                  stats, nextId, clock, runs, response, env, properties, requests,
                  triggers >>

\* doGet with action=open, request q: recordEmailOpen reads the rows of
\* the tracking sheet
doGet_open_getValues(q, trackingId) ==
  /\ requests[q].pc = "new"
  /\ requests' = [requests EXCEPT ![q] =
                    [pc |-> "read", trackingId |-> trackingId, data |-> tracking]]
  /\ UNCHANGED << history, data_date, cte, prev, sheet, tracking, logs, outbox,
                  stats, nextId, clock, runs, response, env, properties, dialogs,
                  triggers >>

\* doGet with action=open, request q: recordEmailOpen writes the cells of
\* the row it found and the pixel is returned
doGet_open_setValues(q) ==
  /\ requests[q].pc = "read"
  /\ tracking' = recordEmailOpen_setValues(tracking, requests[q].data,
                                           requests[q].trackingId, clock)
  /\ requests' = [requests EXCEPT ![q] = [@ EXCEPT !.pc = "done", !.data = << >>]]
  /\ response' = Response("IMAGE", "", "GIF89a", 0, 0)
  /\ UNCHANGED << history, data_date, cte, prev, sheet, logs, outbox,
                  stats, nextId, clock, runs, env, properties, dialogs, triggers >>

ScriptInit ==
  /\ tracking = << >>
  /\ logs = [n \in LogSheets |-> << >>]
  /\ outbox = << >>
  /\ stats = ZERO_STATS
  /\ nextId = 0
  /\ clock = 1
  /\ runs = 0
  /\ response = Response("", "", "", 0, 0)
  /\ env = [broken |-> {}, quota |-> 0]
  /\ properties = NO_PROPERTIES
  /\ dialogs = [d \in 1..MaxDialogs |-> NO_DIALOG]
  /\ requests = [q \in 1..MaxRequests |-> NO_REQUEST]
  /\ triggers = << >>

Init ==
  /\ data_date = start_date - 1
  /\ history \in { << >>, << HistoryRow(start_date - 1, [d |-> 10, a |-> 2, n |-> 200]) >> }
  /\ cte = << >>
  /\ prev = << >>
  /\ sheet = << HEADER >>
  /\ ScriptInit

Next ==
  \/ \E o \in WeekObs : RunQuery(<< o >>)
  \/ RunQuery(<< >>)

Spec == Init /\ [][Next]_vars

\* The report over weekly figures at and around the thresholds: no lines
\* delivered, a rate equal to a threshold, a single issue above it, a rate
\* above a threshold by less than half a millionth.
FlagObs ==
  { [d |-> 5, a |-> 5, n |-> 0],
    [d |-> 2, a |-> 2, n |-> 10],
    [d |-> 1, a |-> 0, n |-> 10],
    [d |-> 3, a |-> 3, n |-> 100],
    [d |-> 4, a |-> 1, n |-> 100],
    [d |-> 1, a |-> 3, n |-> 400],
    [d |-> 601, a |-> 150, n |-> 20033],
    [d |-> 600, a |-> 150, n |-> 19999] }

NextFlag ==
  \E o \in FlagObs : data_date < MaxFlagWeek /\ RunQuery(<< o >>)

SpecFlag == Init /\ [][NextFlag]_vars

\* The script over a sheet filled by hand or pasted: any row may follow
\* the header, whether or not the report could have produced it.
SheetRow(sellerId, length, label, weeks, action, finalAction, email) ==
  [length |-> length, SELLER_ID |-> sellerId, SELLER_NAME |-> sellerId,
   DEFECTIVE_RATE_30D |-> IF label = "" THEN 0 ELSE 50000,
   NB_DEFECTIVE_30D |-> IF label = "" THEN 0 ELSE 5,
   CONSECUTIVE_DEFECTIVE_WEEKS |-> weeks,
   DEFECTIVE_30D_LABEL |-> label,
   DEFECTIVE_EMAIL_ACTION |-> action,
   APPEARANCE_ISSUE_RATE_30D |-> 0, NB_APPEARANCE_ISSUE_30D |-> 0,
   CONSECUTIVE_APPEARANCE_WEEKS |-> 0,
   APPEARANCE_ISSUE_LABEL |-> "",
   APPEARANCE_EMAIL_ACTION |-> NO_ACTION,
   FINAL_EMAIL_ACTION |-> finalAction,
   EMAIL |-> email]

SheetRows ==
  << SheetRow("S1", 20, "Critical", 1, FIRST_WARNING, FIRST_WARNING, CONTACT_EMAIL),
     SheetRow("S2", 20, "", 0, NO_ACTION, FIRST_WARNING, CONTACT_EMAIL),
     SheetRow("S3", 20, "Critical", 2, NO_ACTION, NO_ACTION, CONTACT_EMAIL),
     SheetRow("S4", 20, "Critical", 4, LAST_WARNING, LAST_WARNING, << >>),
     SheetRow("S5", 20, "Critical", 5, SUSPENSION, SUSPENSION,
              << "x", "@", ",", " ", "a", "@", "b", ".", "c" >>),
     SheetRow("S6", 20, "Critical", 4, LAST_WARNING, LAST_WARNING,
              << "a", "@", "b", ".", "c", ",", "d", "@", "e", ".", "f" >>),
     SheetRow("S7", 19, "Critical", 1, FIRST_WARNING, FIRST_WARNING, << >>),
     SheetRow("S8", 20, "Critical", 3, NO_ACTION, "Send Reminder", CONTACT_EMAIL),
     SheetRow("S9", 20, "Critical", 1, FIRST_WARNING, FIRST_WARNING,
              << "x", "@", ",", "a", " ", "@", "b", ".", "c" >>) >>

\* the rows of SheetRows at the indices picked, in the order of SheetRows
\* (the report has one row per seller, in a fixed order; getValues() gives
\* every row of a sheet the same number of cells)
RowsAt(picked) ==
  Relation([k \in 1..Cardinality(picked) |->
              SheetRows[CHOOSE i \in picked : Cardinality({j \in picked : j <= i}) = k]])

InitSheet ==
  /\ data_date = start_date - 1
  /\ history = << >>
  /\ cte = << >>
  /\ prev = << >>
  /\ sheet \in {<< HEADER >> \o RowsAt(picked) :
                  picked \in {p \in SUBSET (1..Len(SheetRows)) :
                                /\ Cardinality(p) \in 1..MaxRows
                                /\ \A i, j \in p :
                                     SheetRows[i].length = SheetRows[j].length}}
  /\ ScriptInit

\* seller ids and email types of the requests: sellers of the sheet, a
\* seller that is in no sheet, an email type that names no log
RequestIds == {"S1", "S6", "S0"}

RequestTypes == {FIRST_WARNING, LAST_WARNING, "Send Reminder"}

\* Runs of main() over a hand-filled sheet, with every set of templates
\* that fail to load and every number of emails the mail service accepts.
NextRun ==
  /\ clock < MaxClock
  /\ \E broken \in TemplateFaults : \E quota \in 0..MaxQuota : main(broken, quota)

SpecRun == InitSheet /\ [][NextRun]_vars

\* Runs of main() with every template loading and the mail service
\* accepting every email or none, and loads of the tracking pixel.
NextSheet ==
  \/ /\ clock < MaxClock
     /\ \E quota \in {0, MaxQuota} : main({}, quota)
  \/ /\ clock < MaxClock
     /\ \E trackingId \in (0..nextId) \cup {NULL} : doGet_open(trackingId)

SpecSheet == InitSheet /\ [][NextSheet]_vars

\* The script over the same sheets, with the status updates and history
\* queries of the operators instead of the opens of the recipients.
NextResponse ==
  \/ /\ clock < MaxClock
     /\ main({}, MaxQuota)
  \/ /\ clock < MaxClock
     /\ \E sellerId \in RequestIds \cup {""} : \E emailType \in RequestTypes :
          doGet_updateResponse(sellerId, emailType, "", "")
  \/ /\ clock < MaxClock
     /\ \E sellerId \in RequestIds : doGet_viewHistory(sellerId)
  \/ /\ clock < MaxClock
     /\ \E sellerId \in RequestIds : \E emailType \in RequestTypes :
          \E notes \in {"", "called"} :
            recordSellerResponse(sellerId, emailType, "In Progress", notes)

SpecResponse == InitSheet /\ [][NextResponse]_vars

\* Sheets whose seller ids are the text of a number: 1001 as the report
\* writes it (a number cell reads as "1001" with String and as 1001 with
\* Number, like the text cell "1001") and the text cell "01001".
LookupRows ==
  << SheetRow("1001", 20, "Critical", 1, FIRST_WARNING, FIRST_WARNING, CONTACT_EMAIL),
     SheetRow("01001", 20, "Critical", 4, LAST_WARNING, LAST_WARNING, CONTACT_EMAIL),
     SheetRow("S1", 20, "Critical", 1, FIRST_WARNING, FIRST_WARNING, CONTACT_EMAIL) >>

LookupRowsAt(picked) ==
  Relation([k \in 1..Cardinality(picked) |->
              LookupRows[CHOOSE i \in picked : Cardinality({j \in picked : j <= i}) = k]])

InitLookup ==
  /\ data_date = start_date - 1
  /\ history = << >>
  /\ cte = << >>
  /\ prev = << >>
  /\ sheet \in {<< HEADER >> \o LookupRowsAt(picked) :
                  picked \in {p \in SUBSET (1..Len(LookupRows)) :
                                Cardinality(p) \in 1..MaxRows}}
  /\ ScriptInit

\* the seller ids typed into the lookups
LookupIds == {"1001", "01001", "S1", "0"}

\* A run of main() and the three lookups by seller id.
NextLookup ==
  \/ /\ clock < MaxClock
     /\ main({}, MaxQuota)
  \/ /\ clock < MaxClock
     /\ \E sellerId \in LookupIds : run_verifySellerExists(sellerId)
  \/ /\ clock < MaxClock
     /\ \E sellerId \in LookupIds : doGet_viewHistory(sellerId)
  \/ /\ clock < MaxClock
     /\ \E sellerId \in LookupIds : \E emailType \in {FIRST_WARNING, LAST_WARNING} :
          recordSellerResponse(sellerId, emailType, "In Progress", "")

SpecLookup == InitLookup /\ [][NextLookup]_vars

\* the statuses of the buttons of the status dialog that are stored as
\* they are
DialogStatuses == {"Resolved", "In Progress"}

\* A run of main() and invocations of the Update Response Status dialog,
\* numbered in the order they begin, by one user or by several: the
\* buttons of their dialogs and their polling loops share the script
\* properties.
NextDialog ==
  \/ /\ clock < MaxClock
     /\ main({}, MaxQuota)
  \/ \E d \in 1..MaxDialogs : \E sellerId \in RequestIds : \E typeIndex \in 1..2 :
       /\ \A e \in 1..(d - 1) : dialogs[e].pc # "idle"
       /\ showImprovedUpdateStatusDialog_begin(d, sellerId, typeIndex)
  \/ \E d \in 1..MaxDialogs : \E status \in DialogStatuses : run_setSelectedStatus(d, status)
  \/ \E d \in 1..MaxDialogs : run_cancel(d)
  \/ \E d \in 1..MaxDialogs : \E confirmed \in BOOLEAN :
       showImprovedUpdateStatusDialog_status(d, "", confirmed)
  \/ \E d \in 1..MaxDialogs : showImprovedUpdateStatusDialog_timeout(d)

SpecDialog == InitSheet /\ [][NextDialog]_vars

\* A run of main() and tracking pixel requests that the web app serves
\* side by side, numbered in the order they arrive, for the ids of the
\* emails sent so far.
NextOpen ==
  \/ /\ clock < MaxClock
     /\ main({}, MaxQuota)
  \/ \E q \in 1..MaxRequests : \E trackingId \in 0..(nextId - 1) :
       /\ \A p \in 1..(q - 1) : requests[p].pc # "new"
       /\ doGet_open_getValues(q, trackingId)
  \/ \E q \in 1..MaxRequests : doGet_open_setValues(q)

SpecOpen == InitSheet /\ [][NextOpen]_vars

\* The weekly schedule: setWeeklySchedule from the menu, with any call to
\* ScriptApp failing or none, the runs of main() by the weekly trigger and
\* the history page of the web app.
NextSchedule ==
  \/ /\ clock < MaxClock
     /\ \E fault \in {NULL} \cup (1..(Len(triggers) + 1)) : run_setWeeklySchedule(fault)
  \/ /\ clock < MaxClock
     /\ \E quota \in {0, MaxQuota} : trigger_main(quota)
  \/ /\ clock < MaxClock
     /\ \E sellerId \in RequestIds : doGet_viewHistory(sellerId)

SpecSchedule == InitSheet /\ [][NextSchedule]_vars

\* The weekly cycle: the report fills the sheet and the weekly trigger
\* runs main() once on it before the next report.
WeeklyObs ==
  { [d |-> 4, a |-> 0, n |-> 100],
    [d |-> 3, a |-> 2, n |-> 100],
    [d |-> 10, a |-> 2, n |-> 200] }

NextWeekly ==
  \/ runs >= 1 /\ \E o \in WeeklyObs : RunQuery(<< o >>)
  \/ runs = 0 /\ \E quota \in {0, MaxQuota} : main({}, quota)

SpecWeekly == Init /\ [][NextWeekly]_vars

\* ---------------------------------------------------------------- helpers
\* the weekly pass/fail series of the seller, oldest week first
DefectiveFlags(wd) == Relation([i \in 1..Len(wd) |-> wd[i].HAD_DEFECTIVE_ISSUE])

AppearanceFlags(wd) == Relation([i \in 1..Len(wd) |-> wd[i].HAD_APPEARANCE_ISSUE])

\* number of trailing entries of f equal to 1
TrailingRun(f) ==
  Cardinality({i \in 1..Len(f) : \A j \in i..Len(f) : f[j] = 1})

\* StreakState(N) = PassFailFlag(N) ? (PassFailFlag(N-1) ? StreakState(N-1)+1 : 1) : 0
Recurrence(flagN, hasPrev, flagPrev, streakPrev) ==
  IF flagN = 1 THEN (IF hasPrev /\ flagPrev = 1 THEN streakPrev + 1 ELSE 1) ELSE 0

\* C1: the streak reported for the most recent week is the number of
\* trailing consecutive failing weeks of the series (0 when the most recent
\* week passes), and it follows the week-to-week recurrence.
C1_StreakIsTrailingRun ==
  Len(cte) = 1 =>
    \A wd \in {WeeklyData(history)} :
      LET n == Len(wd)
          es == cte[1].es
          hasPrev == n > 1
      IN /\ hasPrev => Len(prev) = 1
         /\ es.EFFECTIVE_DEFECTIVE_STREAK = TrailingRun(DefectiveFlags(wd))
         /\ es.EFFECTIVE_APPEARANCE_STREAK = TrailingRun(AppearanceFlags(wd))
         /\ wd[n].HAD_DEFECTIVE_ISSUE = 0 => es.EFFECTIVE_DEFECTIVE_STREAK = 0
         /\ wd[n].HAD_APPEARANCE_ISSUE = 0 => es.EFFECTIVE_APPEARANCE_STREAK = 0
         /\ es.EFFECTIVE_DEFECTIVE_STREAK =
              Recurrence(wd[n].HAD_DEFECTIVE_ISSUE, hasPrev,
                         IF hasPrev THEN wd[n - 1].HAD_DEFECTIVE_ISSUE ELSE 0,
                         IF hasPrev THEN prev[1].es.EFFECTIVE_DEFECTIVE_STREAK ELSE 0)
         /\ es.EFFECTIVE_APPEARANCE_STREAK =
              Recurrence(wd[n].HAD_APPEARANCE_ISSUE, hasPrev,
                         IF hasPrev THEN wd[n - 1].HAD_APPEARANCE_ISSUE ELSE 0,
                         IF hasPrev THEN prev[1].es.EFFECTIVE_APPEARANCE_STREAK ELSE 0)

\* a run of three failing weeks after a passing one, the other metric passing
C1_Witness ==
  /\ Len(cte) = 1
  /\ cte[1].es.EFFECTIVE_DEFECTIVE_STREAK = 3
  /\ cte[1].es.EFFECTIVE_APPEARANCE_STREAK = 0
  /\ \E wd \in {WeeklyData(history)} :
        Len(wd) >= 4 /\ wd[Len(wd) - 3].HAD_DEFECTIVE_ISSUE = 0

\* the streaks of the metrics that are currently failing
FailingStreaks(es) ==
  {es.EFFECTIVE_DEFECTIVE_STREAK : x \in {1} \cap {es.CURRENT_DEFECTIVE_STATUS}}
  \cup {es.EFFECTIVE_APPEARANCE_STREAK : x \in {1} \cap {es.CURRENT_APPEARANCE_STATUS}}

\* C2: the final action is decided in strict priority order: Suspension
\* Notice if a failing metric has streak 5, else Last Warning if one has
\* streak 4, else First Warning if one has streak 1, else No Action; so
\* (4, 5) both failing is a Suspension Notice and streaks in {2,3} No Action.
C2_FinalActionPriority ==
  Len(cte) = 1 =>
    LET es == cte[1].es
        S == FailingStreaks(es)
    IN /\ cte[1].ea.FINAL_EMAIL_ACTION =
            (IF 5 \in S THEN SUSPENSION
             ELSE IF 4 \in S THEN LAST_WARNING
             ELSE IF 1 \in S THEN FIRST_WARNING
             ELSE NO_ACTION)
       /\ (S = {4, 5}) => cte[1].ea.FINAL_EMAIL_ACTION = SUSPENSION
       /\ (S # {} /\ S \subseteq {2, 3}) => cte[1].ea.FINAL_EMAIL_ACTION = NO_ACTION
       /\ Len(sheet) = 2 => sheet[2].FINAL_EMAIL_ACTION = cte[1].ea.FINAL_EMAIL_ACTION

\* defective streak 4 and appearance streak 5, both currently failing
C2_Witness ==
  /\ Len(cte) = 1
  /\ Len(sheet) = 2
  /\ cte[1].es.CURRENT_DEFECTIVE_STATUS = 1
  /\ cte[1].es.CURRENT_APPEARANCE_STATUS = 1
  /\ cte[1].es.EFFECTIVE_DEFECTIVE_STREAK = 4
  /\ cte[1].es.EFFECTIVE_APPEARANCE_STREAK = 5
  /\ sheet[2].FINAL_EMAIL_ACTION = SUSPENSION

\* the per-metric table of the claim
MetricActionTable(action, failing, streak) ==
  /\ action \in {FIRST_WARNING, LAST_WARNING, SUSPENSION, NO_ACTION}
  /\ action = FIRST_WARNING <=> (failing /\ streak = 1)
  /\ action = LAST_WARNING <=> (failing /\ streak = 4)
  /\ action = SUSPENSION <=> (failing /\ streak = 5)
  /\ (streak \in {0, 2, 3} \/ ~failing) => action = NO_ACTION

\* C3: each per-metric action is First Warning iff the metric is failing
\* with streak 1, Last Warning iff failing with streak 4, Suspension Notice
\* iff failing with streak 5, and No Action for streak 0, 2, 3 or when the
\* metric is not currently failing.
C3_PerMetricAction ==
  Len(cte) = 1 =>
    /\ MetricActionTable(cte[1].ea.DEFECTIVE_EMAIL_ACTION,
                         cte[1].es.CURRENT_DEFECTIVE_STATUS = 1,
                         cte[1].es.EFFECTIVE_DEFECTIVE_STREAK)
    /\ MetricActionTable(cte[1].ea.APPEARANCE_EMAIL_ACTION,
                         cte[1].es.CURRENT_APPEARANCE_STATUS = 1,
                         cte[1].es.EFFECTIVE_APPEARANCE_STREAK)
    /\ Len(sheet) = 2 =>
         /\ sheet[2].DEFECTIVE_EMAIL_ACTION = cte[1].ea.DEFECTIVE_EMAIL_ACTION
         /\ sheet[2].APPEARANCE_EMAIL_ACTION = cte[1].ea.APPEARANCE_EMAIL_ACTION

\* defective streak 1 (failing), appearance streak 0
C3_Witness ==
  /\ Len(cte) = 1
  /\ Len(sheet) = 2
  /\ cte[1].es.CURRENT_DEFECTIVE_STATUS = 1
  /\ cte[1].es.CURRENT_APPEARANCE_STATUS = 0
  /\ sheet[2].CONSECUTIVE_DEFECTIVE_WEEKS = 1
  /\ sheet[2].CONSECUTIVE_APPEARANCE_WEEKS = 0
  /\ sheet[2].DEFECTIVE_EMAIL_ACTION = FIRST_WARNING
  /\ sheet[2].APPEARANCE_EMAIL_ACTION = NO_ACTION
  /\ sheet[2].FINAL_EMAIL_ACTION = FIRST_WARNING

\* No Action < First Warning < Last Warning < Suspension Notice
Severity(action) ==
  CASE action = NO_ACTION -> 0
    [] action = FIRST_WARNING -> 1
    [] action = LAST_WARNING -> 2
    [] action = SUSPENSION -> 3

\* C4: the final action is the more severe of the two per-metric actions;
\* a failing defective metric with streak 5 gives Suspension Notice for
\* every appearance streak up to 4.
C4_FinalIsMostSevere ==
  Len(cte) = 1 =>
    LET d == Severity(cte[1].ea.DEFECTIVE_EMAIL_ACTION)
        a == Severity(cte[1].ea.APPEARANCE_EMAIL_ACTION)
    IN /\ Severity(cte[1].ea.FINAL_EMAIL_ACTION) = (IF d >= a THEN d ELSE a)
       /\ ( /\ cte[1].es.CURRENT_DEFECTIVE_STATUS = 1
            /\ cte[1].es.EFFECTIVE_DEFECTIVE_STREAK = 5
            /\ cte[1].es.EFFECTIVE_APPEARANCE_STREAK <= 4 )
          => cte[1].ea.FINAL_EMAIL_ACTION = SUSPENSION

\* defective streak 5 over an appearance metric at its Last Warning
C4_Witness ==
  /\ Len(cte) = 1
  /\ cte[1].es.CURRENT_DEFECTIVE_STATUS = 1
  /\ cte[1].es.EFFECTIVE_DEFECTIVE_STREAK = 5
  /\ cte[1].ea.APPEARANCE_EMAIL_ACTION = LAST_WARNING
  /\ cte[1].ea.FINAL_EMAIL_ACTION = SUSPENSION

\* C7: a week missing from the history neither resets nor increments the
\* streak: across a gap of absent weeks the streak continues from the last
\* present week, and the streak is 0 only when the present week passes.
C7_GapsKeepStreak ==
  Len(cte) = 1 =>
    \A wd \in {WeeklyData(history)} :
      LET n == Len(wd)
          es == cte[1].es
          gap == n >= 2 /\ wd[n].DATE_KPI - wd[n - 1].DATE_KPI > 1
      IN /\ gap =>
              /\ Len(prev) = 1
              /\ es.EFFECTIVE_DEFECTIVE_STREAK =
                   (IF wd[n].HAD_DEFECTIVE_ISSUE = 1
                    THEN prev[1].es.EFFECTIVE_DEFECTIVE_STREAK + 1 ELSE 0)
              /\ es.EFFECTIVE_APPEARANCE_STREAK =
                   (IF wd[n].HAD_APPEARANCE_ISSUE = 1
                    THEN prev[1].es.EFFECTIVE_APPEARANCE_STREAK + 1 ELSE 0)
         /\ es.EFFECTIVE_DEFECTIVE_STREAK = 0 <=> wd[n].HAD_DEFECTIVE_ISSUE = 0
         /\ es.EFFECTIVE_APPEARANCE_STREAK = 0 <=> wd[n].HAD_APPEARANCE_ISSUE = 0

\* two failing weeks with absent weeks between them, counted as streak 2
C7_Witness ==
  /\ Len(cte) = 1
  /\ Len(prev) = 1
  /\ prev[1].es.EFFECTIVE_DEFECTIVE_STREAK = 1
  /\ cte[1].es.EFFECTIVE_DEFECTIVE_STREAK = 2
  /\ \E wd \in {WeeklyData(history)} :
        Len(wd) >= 2 /\ wd[Len(wd)].DATE_KPI - wd[Len(wd) - 1].DATE_KPI > 1

\* the label table of the claim
LabelTable(label, failing, rate, critical, failedBefore) ==
  /\ label = "Critical" <=> (failing /\ rate > critical)
  /\ label = "Alerting" <=> (failing /\ ~(rate > critical))
  /\ label = "Historical" <=> (~failing /\ failedBefore)
  /\ label = "" <=> (~failing /\ ~failedBefore)

\* C9: the label of a metric is Critical iff it is currently failing with a
\* rate above the critical threshold, Alerting iff failing and not above
\* it, Historical iff not failing and the history has a failing week, and
\* empty otherwise.
C9_SeverityLabel ==
  (Len(cte) = 1 /\ Len(sheet) = 2) =>
    \A wd \in {WeeklyData(history)} :
      /\ LabelTable(sheet[2].DEFECTIVE_30D_LABEL,
                    cte[1].es.CURRENT_DEFECTIVE_STATUS = 1,
                    sheet[2].DEFECTIVE_RATE_30D, DEFECTIVE_CRITICAL,
                    \E i \in 1..Len(wd) : wd[i].HAD_DEFECTIVE_ISSUE = 1)
      /\ LabelTable(sheet[2].APPEARANCE_ISSUE_LABEL,
                    cte[1].es.CURRENT_APPEARANCE_STATUS = 1,
                    sheet[2].APPEARANCE_ISSUE_RATE_30D, APPEARANCE_CRITICAL,
                    \E i \in 1..Len(wd) : wd[i].HAD_APPEARANCE_ISSUE = 1)

\* a metric that failed earlier and passes now, beside a critical one
C9_Witness ==
  /\ Len(sheet) = 2
  /\ sheet[2].DEFECTIVE_30D_LABEL = "Historical"
  /\ sheet[2].APPEARANCE_ISSUE_LABEL = "Critical"

\* the report found an effective streak above 5 for the seller
StreakAbove5 ==
  /\ Len(cte) = 1
  /\ \/ cte[1].es.EFFECTIVE_DEFECTIVE_STREAK > 5
     \/ cte[1].es.EFFECTIVE_APPEARANCE_STREAK > 5

\* C5: a seller whose effective streak for either metric exceeds 5 has no
\* row in the sheet the report produces, whatever the other metric's streak
\* and action, and the run of main() on that sheet sends no email and
\* records no tracking or log row.
C5_ExcludedNeverNotified ==
  /\ [](StreakAbove5 => \A i \in (HEADER_ROW_COUNT + 1)..Len(sheet) :
                          sheet[i].SELLER_ID # SELLER)
  /\ [][StreakAbove5 => /\ outbox' = outbox
                        /\ tracking' = tracking
                        /\ logs' = logs]_vars

\* main() has run on the sheet of a week in which the defective streak is 6
\* while the appearance metric alone asks for a first warning
C5_Witness ==
  /\ Len(cte) = 1
  /\ cte[1].es.EFFECTIVE_DEFECTIVE_STREAK = 6
  /\ cte[1].ea.APPEARANCE_EMAIL_ACTION = FIRST_WARNING
  /\ runs = 1
  /\ Len(outbox) > 0

\* issueCount / deliveredCount > num / den, the rate being 0 when nothing
\* was delivered
ExactFails(issueCount, deliveredCount, num, den) ==
  /\ issueCount >= 2
  /\ deliveredCount > 0
  /\ issueCount * den > num * deliveredCount

\* the rate rounded to 6 decimals (half up) is above threshold millionths:
\* issueCount / deliveredCount >= (threshold + 1/2) / 1000000
RoundedFails(issueCount, deliveredCount, threshold) ==
  /\ issueCount >= 2
  /\ deliveredCount > 0
  /\ 2 * 1000000 * issueCount >= (2 * threshold + 1) * deliveredCount

\* the weekly flags and the current status flags agree with Fails on the
\* figures of their week
FlagsFollow(Fails(_, _, _)) ==
  \A wd \in {WeeklyData(history)} :
    \A i \in 1..Len(history) :
      /\ \A j \in 1..Len(wd) :
           wd[j].DATE_KPI = history[i].DATE_KPI =>
             /\ (wd[j].HAD_DEFECTIVE_ISSUE = 1) <=>
                  Fails(history[i].NB_DEFECTIVE_ISSUE,
                        history[i].NB_ORDERLINE_DELIVERED_30D, TRUE)
             /\ (wd[j].HAD_APPEARANCE_ISSUE = 1) <=>
                  Fails(history[i].NB_APPEARANCE_ISSUE,
                        history[i].NB_ORDERLINE_DELIVERED_30D, FALSE)
      /\ (Len(cte) = 1 /\ history[i].DATE_KPI = data_date) =>
             /\ (cte[1].es.CURRENT_DEFECTIVE_STATUS = 1) <=>
                  Fails(history[i].NB_DEFECTIVE_ISSUE,
                        history[i].NB_ORDERLINE_DELIVERED_30D, TRUE)
             /\ (cte[1].es.CURRENT_APPEARANCE_STATUS = 1) <=>
                  Fails(history[i].NB_APPEARANCE_ISSUE,
                        history[i].NB_ORDERLINE_DELIVERED_30D, FALSE)

\* C6 as stated: for every week and metric the flag is true exactly when
\* issueCount >= 2 and issueCount / deliveredCount is strictly greater than
\* the threshold (3/100 for defects, 75/10000 for appearance), the rate
\* being 0 when deliveredCount is 0.
C6_FlagOnExactRate ==
  LET Fails(issueCount, deliveredCount, defect) ==
        IF defect THEN ExactFails(issueCount, deliveredCount, 3, 100)
        ELSE ExactFails(issueCount, deliveredCount, 75, 10000)
  IN FlagsFollow(Fails)

\* C6 (amended): for every week and metric the flag is true exactly when
\* issueCount >= 2 and issueCount / deliveredCount, rounded to 6 decimals,
\* is strictly greater than the threshold (0.030000 for defects, 0.007500
\* for appearance); with deliveredCount = 0 the flag is false for every
\* issueCount, and a rounded rate equal to the threshold does not fail.
C6_FlagOnRoundedRate ==
  LET Fails(issueCount, deliveredCount, defect) ==
        IF defect THEN RoundedFails(issueCount, deliveredCount, 30000)
        ELSE RoundedFails(issueCount, deliveredCount, 7500)
  IN FlagsFollow(Fails)

\* a week at 601 / 20033 (above 0.03 by less than half a millionth) that
\* does not fail on defects, after a week at 4 / 100 that does
C6_Witness ==
  \A wd \in {WeeklyData(history)} :
    /\ Len(wd) = 2
    /\ history[Len(history) - 1].NB_DEFECTIVE_ISSUE = 4
    /\ wd[1].HAD_DEFECTIVE_ISSUE = 1
    /\ history[Len(history)].NB_DEFECTIVE_ISSUE = 601
    /\ history[Len(history)].NB_ORDERLINE_DELIVERED_30D = 20033
    /\ wd[2].HAD_DEFECTIVE_ISSUE = 0
    /\ Len(cte) = 1
    /\ cte[1].es.CURRENT_DEFECTIVE_STATUS = 0

\* C8: no notification is sent for a row that carries a final action other
\* than No Action while neither metric is currently failing (neither label
\* is Critical or Alerting).
C8_NoSendWithoutFailingMetric ==
  \A k \in 1..Len(outbox) :
    \/ outbox[k].defectiveLabel \in {"Critical", "Alerting"}
    \/ outbox[k].appearanceLabel \in {"Critical", "Alerting"}

\* the rows of the tracking sheet with tracking id trackingId
RecordsOf(trackingId) ==
  {i \in (HEADER_ROW_COUNT + 1)..Len(tracking) : tracking[i].trackingId = trackingId}

\* C10: a record is not opened exactly as long as it has no open timestamp;
\* the first open call on a record's id sets opened = Yes and the open
\* timestamp to the time of the call; every later open call on the same id
\* leaves opened and the open timestamp unchanged and increases viewCount
\* by exactly 1; the call changes nothing else of the record, no record
\* with another id, and adds or removes no record.
C10_OpenOnceThenCount ==
  /\ [](\A i \in (HEADER_ROW_COUNT + 1)..Len(tracking) :
          /\ tracking[i].opened \in {"No", "Yes"}
          /\ (tracking[i].opened = "No") <=> (tracking[i].openDate = BLANK)
          /\ tracking[i].opened = "No" => tracking[i].viewCount = 0)
  /\ [][\A trackingId \in 0..nextId :
          doGet_open(trackingId) =>
            /\ Len(tracking') = Len(tracking)
            /\ \A i \in (HEADER_ROW_COUNT + 1)..Len(tracking) :
                 IF i \in RecordsOf(trackingId)
                 THEN /\ tracking'[i].opened = "Yes"
                      /\ tracking'[i].openDate =
                           IF tracking[i].opened = "No" THEN clock
                           ELSE tracking[i].openDate
                      /\ tracking[i].opened = "Yes" =>
                           tracking'[i].viewCount = tracking[i].viewCount + 1
                      /\ [tracking'[i] EXCEPT !.opened = "", !.openDate = BLANK,
                                              !.viewCount = 0]
                           = [tracking[i] EXCEPT !.opened = "", !.openDate = BLANK,
                                                 !.viewCount = 0]
                 ELSE tracking'[i] = tracking[i]]_vars

\* a record opened twice, the second time later than the first, beside a
\* record of another id that was never opened
C10_Witness ==
  \E i, j \in (HEADER_ROW_COUNT + 1)..Len(tracking) :
    /\ tracking[i].opened = "Yes"
    /\ tracking[i].viewCount = 2
    /\ tracking[i].openDate = clock - 2
    /\ tracking[j].trackingId # tracking[i].trackingId
    /\ tracking[j].opened = "No"

\* -------------------------------------------- notification and tracking
\* the data rows of the sheet and the sellers they name
DataRows == (HEADER_ROW_COUNT + 1)..Len(sheet)

Sellers == {sheet[i].SELLER_ID : i \in DataRows}

\* the records of a tracking or log sheet (the rows under its header)
Records(table) == 2..Len(table)

\* template, subject and log sheet keyed by an email action
Keyed ==
  (FIRST_WARNING :> [template |-> "email_first_warning", subject |-> "FIRST_WARNING",
                     table |-> "First Warning Log"])
  @@ (LAST_WARNING :> [template |-> "email_last_warning", subject |-> "LAST_WARNING",
                       table |-> "Last Warning Log"])
  @@ (SUSPENSION :> [template |-> "email_suspension", subject |-> "SUSPENSION",
                     table |-> "Suspension Log"])

\* the emails sent and the log records written by the step
NewMails == (Len(outbox) + 1)..Len(outbox')

NewRecords(sheetName) ==
  {i \in Records(logs'[sheetName]) : i > Len(logs[sheetName])}

\* C11: for every seller, the number of tracking records equals the number
\* of emails sent to the seller, so that no tracking record exists for an
\* email that was never sent.
C11_TrackingRecordPerSend ==
  \A s \in Sellers :
    Cardinality({i \in Records(tracking) : tracking[i].sellerId = s})
      = Cardinality({k \in 1..Len(outbox) : outbox[k].sellerId = s})

\* C12: a run of main() writes, for each seller it sends an email to,
\* exactly one log record, in the log keyed by the seller's final action
\* and in no other log, with Response Received = No, Resolution Status =
\* Pending and empty response date and notes.
C12_OneResponseRecordPerSeller ==
  [][\A k \in NewMails :
       /\ Cardinality({p \in LogSheets \X (1..Len(outbox') + 1) :
                         /\ p[2] \in NewRecords(p[1])
                         /\ logs'[p[1]][p[2]].sellerId = outbox'[k].sellerId}) = 1
       /\ \A n \in LogSheets : \A i \in NewRecords(n) :
            logs'[n][i].sellerId = outbox'[k].sellerId =>
              /\ n = Keyed[outbox'[k].finalEmailAction].table
              /\ logs'[n][i].responseReceived = "No"
              /\ logs'[n][i].resolutionStatus = "Pending"
              /\ logs'[n][i].responseDate = BLANK
              /\ logs'[n][i].notes = ""]_vars

\* C15: no log holds two records of the same seller.
C15_OneRecordPerSellerAndTier ==
  \A n \in LogSheets : \A i, j \in Records(logs[n]) :
    logs[n][i].sellerId = logs[n][j].sellerId => i = j

\* C17: after a run, every data row was either notified, or needed no
\* action, or was counted in errors or skippedNoEmail.
C17_SkippedRowsAreCounted ==
  runs >= 1 =>
    stats.processed =
      stats.emailsSent + stats.errors + stats.skippedNoEmail
      + Cardinality({i \in DataRows : /\ sheet[i].length > 19
                                       /\ sheet[i].EMAIL # << >>
                                       /\ sheet[i].FINAL_EMAIL_ACTION = NO_ACTION})

\* the tracking records written by the step
NewTracking == {i \in Records(tracking') : i > Len(tracking)}

\* the data rows whose final action is none of the three email actions
\* (an empty cell reads as No Action)
RowsWithoutEmailAction ==
  {i \in DataRows : sheet[i].FINAL_EMAIL_ACTION \notin DOMAIN Keyed}

\* C13 as stated: every email sent is for a final action among the three,
\* to a non-empty address, with the template and subject keyed by that
\* action; every log holds exactly the records of the emails keyed to it;
\* rows with No Action or any other value have no email, tracking record
\* or log record.
C13_TemplateKeyedByAction ==
  /\ \A k \in 1..Len(outbox) :
       /\ outbox[k].finalEmailAction \in DOMAIN Keyed
       /\ outbox[k].to # << >>
       /\ outbox[k].template = Keyed[outbox[k].finalEmailAction].template
       /\ outbox[k].subject = Keyed[outbox[k].finalEmailAction].subject
  /\ \A n \in LogSheets :
       Cardinality(Records(logs[n]))
         = Cardinality({k \in 1..Len(outbox) :
                          /\ outbox[k].finalEmailAction \in DOMAIN Keyed
                          /\ Keyed[outbox[k].finalEmailAction].table = n})
  /\ \A i \in RowsWithoutEmailAction :
       /\ \A k \in 1..Len(outbox) : outbox[k].sellerId # sheet[i].SELLER_ID
       /\ \A j \in Records(tracking) : tracking[j].sellerId # sheet[i].SELLER_ID
       /\ \A n \in LogSheets : \A j \in Records(logs[n]) :
            logs[n][j].sellerId # sheet[i].SELLER_ID

\* C13 (amended): emails, tracking records and log records are written by
\* main() only (a step of main(broken, quota) is one of main with the
\* environment it leaves in env); every email of a run is for a final action among the three,
\* to a non-empty address, with the subject keyed by that action and the
\* template keyed by that action or, when that template fails to load, the
\* first warning template; the run adds to every log exactly the records of
\* the emails keyed to it; rows with No Action or any other value get no
\* email, tracking record or log record.
C13_TemplateKeyedOrFallback ==
  [][/\ \A broken \in {env'.broken} : \A quota \in {env'.quota} :
          main(broken, quota) =>
            /\ \A k \in NewMails :
                 /\ outbox'[k].finalEmailAction \in DOMAIN Keyed
                 /\ outbox'[k].to # << >>
                 /\ outbox'[k].subject = Keyed[outbox'[k].finalEmailAction].subject
                 /\ outbox'[k].template \notin broken
                 /\ outbox'[k].template =
                      IF Keyed[outbox'[k].finalEmailAction].template \notin broken
                      THEN Keyed[outbox'[k].finalEmailAction].template
                      ELSE "email_first_warning"
            /\ \A n \in LogSheets :
                 Cardinality(NewRecords(n))
                   = Cardinality({k \in NewMails :
                                    Keyed[outbox'[k].finalEmailAction].table = n})
            /\ \A i \in NewTracking : tracking'[i].emailType \in DOMAIN Keyed
            /\ \A i \in RowsWithoutEmailAction :
                 /\ \A k \in NewMails : outbox'[k].sellerId # sheet[i].SELLER_ID
                 /\ \A j \in NewTracking : tracking'[j].sellerId # sheet[i].SELLER_ID
                 /\ \A n \in LogSheets : \A j \in NewRecords(n) :
                      logs'[n][j].sellerId # sheet[i].SELLER_ID
     /\ ~main(env'.broken, env'.quota)
          => /\ outbox' = outbox
             /\ Len(tracking') = Len(tracking)
             /\ \A n \in LogSheets : Len(logs'[n]) = Len(logs[n])]_vars

\* a suspension notice sent with the first warning template, from a sheet
\* that also has a row with a final action outside the three
C13_Witness ==
  /\ \E k \in 1..Len(outbox) :
       /\ outbox[k].finalEmailAction = SUSPENSION
       /\ outbox[k].template = "email_first_warning"
       /\ outbox[k].subject = "SUSPENSION"
  /\ Len(logs["Suspension Log"]) = 2
  /\ \E i \in DataRows : sheet[i].FINAL_EMAIL_ACTION = "Send Reminder"

\* the records of sellerId in the log keyed by emailType
Matches(sellerId, emailType) ==
  IF emailType \in DOMAIN Keyed
  THEN {i \in Records(logs[Keyed[emailType].table]) :
          logs[Keyed[emailType].table][i].sellerId = sellerId}
  ELSE {}

\* the step changes row i of log n to an answered record and nothing else
OneRowAnswered(n, i, status, notes) ==
  /\ logs'[n] = [logs[n] EXCEPT ![i] =
                   [@ EXCEPT !.responseDate = clock,
                             !.responseReceived = "Yes",
                             !.resolutionStatus = status,
                             !.notes = IF notes # "" THEN notes ELSE @]]
  /\ \A other \in LogSheets \ {n} : logs'[other] = logs[other]
  /\ tracking' = tracking
  /\ outbox' = outbox

\* C14: a status update for (sellerId, emailType) with a matching record
\* succeeds and changes one row, the first match, of the log keyed by
\* emailType: response date, responseReceived = Yes, the status, and the
\* notes when they are non-empty; every other row, the other logs and the
\* main tracking sheet are unchanged.
C14_UpdateMutatesOneRow ==
  [][\A sellerId \in RequestIds : \A emailType \in RequestTypes :
       Matches(sellerId, emailType) # {} =>
         \A first \in {i \in Matches(sellerId, emailType) :
                          \A j \in Matches(sellerId, emailType) : i <= j} :
           /\ \A notes \in {"", "called"} :
                recordSellerResponse(sellerId, emailType, "In Progress", notes) =>
                  /\ response'.message = "true"
                  /\ OneRowAnswered(Keyed[emailType].table, first, "In Progress", notes)
           /\ doGet_updateResponse(sellerId, emailType, "", "") =>
                  /\ response'.title = "Success"
                  /\ OneRowAnswered(Keyed[emailType].table, first, "Resolved",
                                    "Updated via direct action")]_vars

\* the first of a seller's two records answered with empty notes, the second
\* still pending
C14_Witness ==
  /\ Len(logs["Last Warning Log"]) = 3
  /\ logs["Last Warning Log"][2].sellerId = logs["Last Warning Log"][3].sellerId
  /\ logs["Last Warning Log"][2].responseReceived = "Yes"
  /\ logs["Last Warning Log"][2].resolutionStatus = "In Progress"
  /\ logs["Last Warning Log"][2].responseDate # BLANK
  /\ logs["Last Warning Log"][2].notes = ""
  /\ logs["Last Warning Log"][3].responseReceived = "No"
  /\ logs["Last Warning Log"][3].resolutionStatus = "Pending"
  /\ Len(tracking) > 1

\* the addresses of an email cell, and the valid ones among them, in order
Addresses(cell) == Relation([k \in 1..Len(split(cell)) |-> trim(split(cell)[k])])

ValidAddresses(cell) == SelectSeq(Addresses(cell), isValidEmail)

\* the row reaches sendQualityNotification
Attempted(row) ==
  /\ row.length > EMAIL
  /\ row.EMAIL # << >>
  /\ row.FINAL_EMAIL_ACTION \notin {"", NO_ACTION}

\* the row can be notified: an email action, a template that loads (its own
\* or the first warning one) and a valid address
Dispatchable(row, broken) ==
  /\ Attempted(row)
  /\ row.FINAL_EMAIL_ACTION \in DOMAIN Keyed
  /\ \/ Keyed[row.FINAL_EMAIL_ACTION].template \notin broken
     \/ "email_first_warning" \notin broken
  /\ ValidAddresses(row.EMAIL) # << >>

\* the emails the rows from i on need
RECURSIVE Needed(_, _)
Needed(i, broken) ==
  IF i > Len(sheet) THEN 0
  ELSE (IF Dispatchable(sheet[i], broken) THEN Len(ValidAddresses(sheet[i].EMAIL)) ELSE 0)
       + Needed(i + 1, broken)

RowOf(sellerId) == CHOOSE i \in DataRows : sheet[i].SELLER_ID = sellerId

\* the emails of the step to the seller of row i
NewMailsOf(i) == {k \in NewMails : outbox'[k].sellerId = sheet[i].SELLER_ID}

\* C16: a run of processData counts every data row once, notifies in sheet
\* order, and attempts a row once (one tracking id, no more emails than the
\* row has valid addresses); when the mail service accepts the emails of
\* the run, every row that can be notified is notified whatever happened
\* to the rows before it, and the rows that failed are counted as errors.
C16_EveryRowOnceInOrder ==
  [][\A broken \in {env'.broken} : \A quota \in {env'.quota} :
       (main(broken, quota) /\ Len(sheet) > HEADER_ROW_COUNT) =>
         /\ stats'.processed = Len(sheet) - HEADER_ROW_COUNT
         /\ \A k \in NewMails : \A l \in NewMails :
              k < l => RowOf(outbox'[k].sellerId) <= RowOf(outbox'[l].sellerId)
         /\ \A i \in DataRows :
              /\ Cardinality({j \in NewTracking :
                                tracking'[j].sellerId = sheet[i].SELLER_ID}) <= 1
              /\ Attempted(sheet[i]) =>
                   Cardinality(NewMailsOf(i)) <= Len(ValidAddresses(sheet[i].EMAIL))
              /\ ~Attempted(sheet[i]) => NewMailsOf(i) = {}
         /\ quota >= Needed(HEADER_ROW_COUNT + 1, broken) =>
              /\ \A i \in DataRows :
                   Dispatchable(sheet[i], broken) <=> NewMailsOf(i) # {}
              /\ stats'.emailsSent
                   = Cardinality({i \in DataRows : Dispatchable(sheet[i], broken)})
              /\ stats'.errors
                   = Cardinality({i \in DataRows : /\ Attempted(sheet[i])
                                                    /\ ~Dispatchable(sheet[i], broken)})]_vars

\* a run over two rows: the first failed and was counted, the second was
\* notified
C16_Witness ==
  /\ Len(sheet) = 3
  /\ stats.processed = 2
  /\ stats.errors = 1
  /\ stats.emailsSent = 1
  /\ Attempted(sheet[2])
  /\ \A k \in 1..Len(outbox) : outbox[k].sellerId = sheet[3].SELLER_ID
  /\ outbox # << >>

\* C18: no email of a run goes to an address that is not a valid address
\* of its seller's cell; when the template loads and the mail service
\* accepts the emails of the run, the emails to a seller go to the valid
\* addresses of the cell, each once and in the order of the cell, whatever
\* invalid entries stand before, between or after them.
C18_ValidAddressesIndependently ==
  [][\A broken \in {env'.broken} : \A quota \in {env'.quota} :
       (main(broken, quota) /\ Len(sheet) > HEADER_ROW_COUNT) =>
         /\ \A k \in NewMails :
              /\ isValidEmail(outbox'[k].to)
              /\ \E n \in 1..Len(Addresses(sheet[RowOf(outbox'[k].sellerId)].EMAIL)) :
                   Addresses(sheet[RowOf(outbox'[k].sellerId)].EMAIL)[n] = outbox'[k].to
         /\ quota >= Needed(HEADER_ROW_COUNT + 1, broken) =>
              \A i \in DataRows :
                Dispatchable(sheet[i], broken) =>
                  /\ Cardinality(NewMailsOf(i)) = Len(ValidAddresses(sheet[i].EMAIL))
                  /\ \A first \in {k \in NewMailsOf(i) : \A l \in NewMailsOf(i) : k <= l} :
                       \A n \in 1..Len(ValidAddresses(sheet[i].EMAIL)) :
                         /\ first + n - 1 \in NewMailsOf(i)
                         /\ outbox'[first + n - 1].to = ValidAddresses(sheet[i].EMAIL)[n]]_vars

\* a cell with an invalid entry before a valid address: the valid address
\* got the email and the invalid entry none
C18_Witness ==
  \E i \in DataRows :
    /\ Len(Addresses(sheet[i].EMAIL)) = 2
    /\ ~isValidEmail(Addresses(sheet[i].EMAIL)[1])
    /\ isValidEmail(Addresses(sheet[i].EMAIL)[2])
    /\ \E k \in 1..Len(outbox) :
         /\ outbox[k].sellerId = sheet[i].SELLER_ID
         /\ outbox[k].to = Addresses(sheet[i].EMAIL)[2]
    /\ \A k \in 1..Len(outbox) : outbox[k].to # Addresses(sheet[i].EMAIL)[1]

\* C19: a request for the tracking pixel with an id, of a record or of
\* none, is answered with the image; when no record has the id the tracking
\* sheet is unchanged; the logs and the outbox are never touched.
C19_PixelAlwaysServed ==
  [][\A trackingId \in 0..nextId :
       doGet_open(trackingId) =>
         /\ response'.type = "IMAGE"
         /\ response'.message = "GIF89a"
         /\ (\A i \in Records(tracking) : tracking[i].trackingId # trackingId)
              => tracking' = tracking
         /\ logs' = logs
         /\ outbox' = outbox]_vars

\* the image served while no record of the tracking sheet has been opened:
\* the id of the request matched none
C19_Witness ==
  /\ response.type = "IMAGE"
  /\ Len(tracking) > 1
  /\ \A i \in Records(tracking) :
       /\ tracking[i].opened = "No"
       /\ tracking[i].openDate = BLANK
       /\ tracking[i].viewCount = 0

\* the step leaves the sheets and the outbox as they were
TablesUnchanged ==
  /\ tracking' = tracking
  /\ logs' = logs
  /\ outbox' = outbox

\* sellerId is in no row of the main tracking sheet and of the three logs
Unknown(sellerId) ==
  /\ \A i \in Records(tracking) : tracking[i].sellerId # sellerId
  /\ \A n \in LogSheets : \A i \in Records(logs[n]) : logs[n][i].sellerId # sellerId

\* C20: a status update for (sellerId, emailType) with no matching record
\* (an unknown email type, a log sheet that does not exist, or no row of
\* the seller) returns false, as an error page through the web entry, and
\* changes no sheet; a history query changes no sheet and, for a seller in
\* no sheet, returns the text that no tracking information was found.
C20_LookupMissChangesNothing ==
  [][/\ \A sellerId \in RequestIds : \A emailType \in RequestTypes :
          Matches(sellerId, emailType) = {} =>
            /\ \A notes \in {"", "called"} :
                 recordSellerResponse(sellerId, emailType, "In Progress", notes) =>
                   /\ response' = Response("RESULT", "", "false", 0, 0)
                   /\ TablesUnchanged
            /\ doGet_updateResponse(sellerId, emailType, "", "") =>
                   /\ response'.type = "HTML"
                   /\ response'.title = "Error"
                   /\ TablesUnchanged
     /\ \A sellerId \in RequestIds :
          doGet_viewHistory(sellerId) =>
            /\ response'.type = "HTML"
            /\ response'.title = "Seller History"
            /\ Unknown(sellerId) <=> response'.message = NOT_FOUND
            /\ TablesUnchanged]_vars

\* an update that found no record, after a run that wrote records: every
\* record is as the run wrote it
C20_Witness ==
  /\ response = Response("RESULT", "", "false", 0, 0)
  /\ \E n \in LogSheets : Records(logs[n]) # {}
  /\ \A n \in LogSheets : \A i \in Records(logs[n]) :
       /\ logs[n][i].responseReceived = "No"
       /\ logs[n][i].resolutionStatus = "Pending"
       /\ logs[n][i].responseDate = BLANK

\* a stored seller id and a queried one are of the same seller: equal as
\* trimmed strings or equal as numbers
SameSeller(stored, queried) ==
  \/ trimmedId(stored) = trimmedId(queried)
  \/ Number(stored) # NaN /\ Number(stored) = Number(queried)

\* the records of the seller queried in a log, and its rows in the main
\* tracking sheet
RecordsOfSeller(n, queried) ==
  {i \in Records(logs[n]) : SameSeller(logs[n][i].sellerId, queried)}

EmailsOfSeller(queried) ==
  {i \in Records(tracking) : SameSeller(tracking[i].sellerId, queried)}

\* C21: the three lookups by seller id take the rows whose stored id is
\* equal to the queried id as a trimmed string or as a number: the
\* existence check reports the seller's records of the three logs, a status
\* update succeeds exactly when the log of the email type has one, and the
\* history query reports the seller's rows of the tracking sheet and its
\* records of the three logs.
C21_LookupsMatchAlike ==
  [][\A sellerId \in LookupIds :
       /\ run_verifySellerExists(sellerId) =>
            /\ response'.details
                 = Cardinality(RecordsOfSeller("First Warning Log", sellerId))
                   + Cardinality(RecordsOfSeller("Last Warning Log", sellerId))
                   + Cardinality(RecordsOfSeller("Suspension Log", sellerId))
            /\ response'.message = "true" <=> response'.details > 0
       /\ \A emailType \in {FIRST_WARNING, LAST_WARNING} :
            recordSellerResponse(sellerId, emailType, "In Progress", "") =>
              (response'.message = "true"
                 <=> RecordsOfSeller(Keyed[emailType].table, sellerId) # {})
       /\ doGet_viewHistory(sellerId) =>
            /\ response'.emails = Cardinality(EmailsOfSeller(sellerId))
            /\ response'.details
                 = Cardinality(RecordsOfSeller("First Warning Log", sellerId))
                   + Cardinality(RecordsOfSeller("Last Warning Log", sellerId))
                   + Cardinality(RecordsOfSeller("Suspension Log", sellerId))]_vars

\* the tracking records and the log records the step writes for the
\* seller of row i
NewTrackingOf(i) == {j \in NewTracking : tracking'[j].sellerId = sheet[i].SELLER_ID}

NewRecordsOf(n, i) == {j \in NewRecords(n) : logs'[n][j].sellerId = sheet[i].SELLER_ID}

\* the row has an email action and a valid address
Sendable(row) ==
  /\ Attempted(row)
  /\ row.FINAL_EMAIL_ACTION \in DOMAIN Keyed
  /\ ValidAddresses(row.EMAIL) # << >>

\* C22: in a run whose emails the mail service accepts, a row with an email
\* action and a valid address whose template fails to load is sent with
\* the first warning template, the subject of its own tier and a record
\* per email in the log of its own tier and in no other log; when the
\* first warning template fails to load as well, the row gets no email, no
\* tracking record and no log record; a row whose template loads is sent
\* with it.
C22_FallbackTemplate ==
  [][\A broken \in {env'.broken} : \A quota \in {env'.quota} :
       (main(broken, quota) /\ quota >= Needed(HEADER_ROW_COUNT + 1, broken)) =>
         \A i \in {r \in DataRows : Sendable(sheet[r])} :
           \A tier \in {Keyed[sheet[i].FINAL_EMAIL_ACTION]} :
             /\ tier.template \notin broken =>
                  /\ NewMailsOf(i) # {}
                  /\ \A k \in NewMailsOf(i) : outbox'[k].template = tier.template
             /\ (tier.template \in broken /\ "email_first_warning" \notin broken) =>
                  /\ NewMailsOf(i) # {}
                  /\ \A k \in NewMailsOf(i) :
                       /\ outbox'[k].template = "email_first_warning"
                       /\ outbox'[k].subject = tier.subject
                  /\ Cardinality(NewRecordsOf(tier.table, i)) = Cardinality(NewMailsOf(i))
                  /\ \A n \in LogSheets \ {tier.table} : NewRecordsOf(n, i) = {}
                  /\ NewTrackingOf(i) # {}
             /\ (tier.template \in broken /\ "email_first_warning" \in broken) =>
                  /\ NewMailsOf(i) = {}
                  /\ NewTrackingOf(i) = {}
                  /\ \A n \in LogSheets : NewRecordsOf(n, i) = {}]_vars

\* a run in which the last warning template failed to load: the two last
\* warnings of a seller went out with the first warning template and are
\* in the last warning log
C22_Witness ==
  /\ runs = 1
  /\ env.broken = {"email_last_warning"}
  /\ Len(outbox) = 2
  /\ \A k \in 1..Len(outbox) :
       /\ outbox[k].finalEmailAction = LAST_WARNING
       /\ outbox[k].template = "email_first_warning"
       /\ outbox[k].subject = "LAST_WARNING"
  /\ Len(logs["Last Warning Log"]) = 3
  /\ Len(logs["First Warning Log"]) = 1

\* C23: a run counts under emailsSent the rows for which an email went
\* out and under errors only rows for which none went out.
C23_ErrorsOnlyWithoutEmail ==
  [][\A broken \in {env'.broken} : \A quota \in {env'.quota} :
       (main(broken, quota) /\ Len(sheet) > HEADER_ROW_COUNT) =>
         /\ stats'.emailsSent = Cardinality({i \in DataRows : NewMailsOf(i) # {}})
         /\ stats'.errors
              <= Cardinality({i \in DataRows : Attempted(sheet[i]) /\ NewMailsOf(i) = {}})]_vars

\* the final action of week k of a streak in which one metric alone fails
TierOfWeek(k) ==
  CASE k = 1 -> FIRST_WARNING
    [] k = 4 -> LAST_WARNING
    [] k = 5 -> SUSPENSION
    [] OTHER -> NO_ACTION

\* the seller has figures this week, and the last k weeks of the series
\* f are failing weeks of consecutive dates, the week before them (if any)
\* is not failing, and the other metric g passes in each of them
LoneStreak(wd, f, g, k) ==
  /\ Len(wd) >= 1
  /\ wd[Len(wd)].DATE_KPI = data_date
  /\ k >= 1
  /\ k = TrailingRun(f)
  /\ \A j \in (Len(wd) - k + 1)..Len(wd) :
       /\ g[j] = 0
       /\ j > Len(wd) - k + 1 => wd[j].DATE_KPI = wd[j - 1].DATE_KPI + 1

\* the sheet of the report and the report before it, in week k of such a
\* streak
StreakReport(k) ==
  /\ Len(cte) = 1
  /\ k <= 5 => /\ Len(sheet) = 2
               /\ sheet[2].SELLER_ID = SELLER
               /\ sheet[2].FINAL_EMAIL_ACTION = TierOfWeek(k)
  /\ k >= 6 => Len(sheet) = 1
  /\ k \in 2..6 => /\ Len(prev) = 1
                    /\ prev[1].ea.FINAL_EMAIL_ACTION = TierOfWeek(k - 1)

\* C24: over weekly reports in which one metric fails every week, from
\* the first week on record or right after a week in which it passed, and
\* the other metric passes, the final action of week k of the streak is
\* Send First Warning for k = 1, No Action for k = 2 and 3, Send Last
\* Warning for k = 4, Send Suspension Notice for k = 5, the report before
\* had the action of week k - 1, and from week 6 on the seller has no row
\* in the sheet; so each tier is issued once in the streak.
C24_TiersInOrder ==
  \A wd \in {WeeklyData(history)} :
    \A k \in 1..Len(wd) :
      /\ LoneStreak(wd, DefectiveFlags(wd), AppearanceFlags(wd), k) => StreakReport(k)
      /\ LoneStreak(wd, AppearanceFlags(wd), DefectiveFlags(wd), k) => StreakReport(k)

\* the suspension notice of the fifth week of a defective streak that began
\* right after a passing week, the last warning having been the action of
\* the report before
C24_Witness ==
  /\ Len(sheet) = 2
  /\ sheet[2].FINAL_EMAIL_ACTION = SUSPENSION
  /\ Len(prev) = 1
  /\ prev[1].ea.FINAL_EMAIL_ACTION = LAST_WARNING
  /\ \E wd \in {WeeklyData(history)} :
       /\ Len(wd) = 6
       /\ wd[1].HAD_DEFECTIVE_ISSUE = 0
       /\ LoneStreak(wd, DefectiveFlags(wd), AppearanceFlags(wd), 5)

\* the report of the run dated date, over the history as it was then: its
\* EffectiveStreaks row, and its row of the sheet if the WHERE kept one
ReportOf(date) ==
  LET Rows(h) ==
        LET Of(esq) ==
              [es |-> esq,
               out |-> FinalSelect(h, date,
                                   Relation([i \in 1..Len(esq) |->
                                               [es |-> esq[i], ea |-> EmailActions(esq[i])]]),
                                   CONTACT_EMAIL)]
        IN Of(EffectiveStreaksOf(h, date))
  IN Rows(SelectSeq(history, LAMBDA r : r.DATE_KPI <= date))

\* the run dated date put the seller in the sheet with this final action
Yielded(date, action) ==
  \A r \in {ReportOf(date)} :
    /\ Len(r.out) = 1
    /\ r.out[1].FINAL_EMAIL_ACTION = action

\* the sheet has a suspension notice for the seller and the series f is in
\* week 5 of a failing streak
SuspendedFor(wd, f) ==
  /\ Len(sheet) = 2
  /\ sheet[2].FINAL_EMAIL_ACTION = SUSPENSION
  /\ Len(wd) >= 5
  /\ wd[Len(wd)].DATE_KPI = data_date
  /\ TrailingRun(f) = 5

StatsUpTo(n, broken, quota) ==
  processData(SubSeq(sheet, 1, HEADER_ROW_COUNT + n),
              [tracking |-> tracking, logs |-> logs, outbox |-> outbox,
               nextId |-> nextId, quota |-> quota],
              clock, broken).stats

\* what the later statistics add to the earlier in the three outcomes of a
\* row, and in the tier counters
Outcomes(before, after) ==
  (after.emailsSent - before.emailsSent) + (after.errors - before.errors)
  + (after.skippedNoEmail - before.skippedNoEmail)

Tiers(s) == s.firstWarnings + s.lastWarnings + s.suspensions

\* C26: after processData, processed is the number of data rows, emailsSent
\* is the sum of the three tier counters, emailsSent + errors +
\* skippedNoEmail is at most processed, and every row adds one to processed
\* and one to at most one of emailsSent, errors and skippedNoEmail.
C26_StatsAccounting ==
  [][\A broken \in {env'.broken} : \A quota \in {env'.quota} :
       (main(broken, quota) /\ Len(sheet) > HEADER_ROW_COUNT) =>
         /\ stats'.processed = Cardinality(DataRows)
         /\ stats'.emailsSent = Tiers(stats')
         /\ stats'.emailsSent + stats'.errors + stats'.skippedNoEmail <= stats'.processed
         /\ \A upTo \in {Relation([n \in 1..(Cardinality(DataRows) + 1) |->
                                      StatsUpTo(n - 1, broken, quota)])} :
              /\ stats' = upTo[Cardinality(DataRows) + 1]
              /\ \A n \in 1..Cardinality(DataRows) :
                   \A before \in {upTo[n]} : \A after \in {upTo[n + 1]} :
                     /\ after.processed = before.processed + 1
                     /\ Outcomes(before, after) \in {0, 1}
                     /\ after.emailsSent >= before.emailsSent
                     /\ after.errors >= before.errors
                     /\ after.skippedNoEmail >= before.skippedNoEmail
                     /\ Tiers(after) - Tiers(before)
                          = after.emailsSent - before.emailsSent]_vars

\* a run over two rows: one was sent its email, the other had no address
C26_Witness ==
  /\ runs = 1
  /\ stats.processed = 2
  /\ stats.emailsSent = 1
  /\ stats.skippedNoEmail = 1
  /\ stats.errors = 0

\* C27: the status an invocation of the Update Response Status dialog
\* takes from TEMP_SELECTED_STATUS, and writes, is the status selected in
\* the dialog of that same invocation.
C27_StatusOfSameInvocation ==
  \A d \in 1..MaxDialogs :
    dialogs[d].status # "" => dialogs[d].status = dialogs[d].selected

\* the requests served to the end for the tracking id
Opens(trackingId) ==
  {q \in 1..MaxRequests : requests[q].pc = "done" /\ requests[q].trackingId = trackingId}

\* C28: whatever the interleaving of the pixel requests for a tracking id,
\* its record is opened and its view count is the number of the requests
\* that were served.
C28_NoOpenLost ==
  \A i \in 2..Len(tracking) :
    Opens(tracking[i].trackingId) # {} =>
      /\ tracking[i].opened = "Yes"
      /\ tracking[i].viewCount = Cardinality(Opens(tracking[i].trackingId))

\* C30: after every successful call of setWeeklySchedule the project has
\* exactly one trigger, the weekly trigger of main, whatever triggers it had.
C30_OneTriggerAfterSchedule ==
  [][\A fault \in {NULL} \cup (1..(Len(triggers) + 1)) :
       (run_setWeeklySchedule(fault) /\ response'.message = "true") =>
         /\ Len(triggers') = 1
         /\ triggers'[1].handler = "main"
         /\ triggers'[1].eventType = "CLOCK"]_vars

\* the trigger of a first call has run main() and a later call has
\* replaced it
C30_Witness ==
  /\ runs = 1
  /\ triggers = << Trigger("main", "CLOCK", 3) >>

\* C29: an email of a run over the report tells the seller that a metric
\* has an issue (hasDefectiveIssue, hasAppearanceIssue) only if the report
\* has the seller currently failing that metric.
C29_IssueOnlyIfFailing ==
  [][\A quota \in {env'.quota} :
       (main({}, quota) /\ Len(cte) = 1) =>
         \A k \in NewMails :
           /\ outbox'[k].hasDefectiveIssue => cte[1].es.CURRENT_DEFECTIVE_STATUS = 1
           /\ outbox'[k].hasAppearanceIssue => cte[1].es.CURRENT_APPEARANCE_STATUS = 1]_vars

====
